---- MODULE Spec2Model ----
(***************************************************************************)
(* Model of kuns-installer.py: the installation worker ArchInstallThread   *)
(* (run, _run_command and the eight stage functions), the package helpers  *)
(* and the wizard KunsInstaller (pages, buttons, start_install,            *)
(* install_finished, closeEvent).                                          *)
(*                                                                         *)
(* Spec and FairSpec follow one run of the worker, SpecWizard the window   *)
(* with the runs it starts, SpecRunner one call of _run_command with the   *)
(* text its child prints, SpecNaming the partition naming rule and         *)
(* SpecPackages the package lists.                                         *)
(*                                                                         *)
(* Strings the code looks inside (the disk path and the partition paths)   *)
(* are sequences of one-character strings; strings the code only passes    *)
(* on (messages, command templates, names) are TLA+ strings.               *)
(***************************************************************************)
EXTENDS Integers, Sequences, FiniteSets, TLC

VARIABLES
    config,          \* self.config of the worker
    diskExists,      \* what os.path.exists(disk) answers
    pc,              \* position of the worker thread
    stage,           \* stage function being executed (1..8), 0 before the first
    ip,              \* index of the next statement of the stage function
    ret,             \* value the last stage function returned
    events,          \* everything the run emitted or invoked, in order
    stageResults,    \* how each stage function called so far ended
    efi_partition,   \* self.efi_partition
    root_partition,  \* self.root_partition
    boot_part,       \* local boot_part of _install_bootloader
    efi_success,     \* local efi_success of _install_bootloader
    bios_success,    \* local bios_success of _install_bootloader
    efi_outcome,     \* how the grub-install process of the EFI path went
    bios_outcome,    \* how the grub-install process of the BIOS path went
    closed,          \* the main window accepted a close event
    checks,          \* PackageSelectionWidget: radio button and check boxes
    packages_list,   \* list returned by _get_packages_list
    call,            \* a call of _run_command taken alone: its arguments and
                     \* how the child process goes
    current_page,    \* KunsInstaller.current_page
    prev_enabled,    \* prev_btn.isEnabled()
    prev_visible,    \* prev_btn.isVisible()
    next_visible,    \* next_btn.isVisible()
    install_visible, \* install_btn.isVisible()
    selected_disk,   \* DiskSelectionWidget: the device of the checked radio button
    fields,          \* UserConfigWidget: the texts of the line edits
    orphans,         \* install threads that were still running when
                     \* self.install_thread was bound to a newer thread
    child,           \* child processes spawned by the run that have not exited
    table,           \* the partition table the disk carries: "none" or "gpt"
    mounts           \* what is mounted under the mount point: "root", "efi"

vars == <<config, diskExists, pc, stage, ip, ret, events, stageResults,
          efi_partition, root_partition, boot_part, efi_success, bios_success,
          efi_outcome, bios_outcome, closed, checks, packages_list, call,
          current_page, prev_enabled, prev_visible, next_visible, install_visible,
          selected_disk, fields, orphans, child, table, mounts>>

-----------------------------------------------------------------------------
(* Bounds of the model *)

\* longest disk path drawn for the partition naming rule
MaxDiskLen == 5

\* longest text a child process prints in a call of _run_command taken alone
MaxOutputLen == 3

-----------------------------------------------------------------------------
(* Strings as sequences of characters *)

\* Python: t in s (substring test)
Contains(s, t) ==
    \E i \in 0..(Len(s) - Len(t)) : SubSeq(s, i + 1, i + Len(t)) = t

RECURSIVE SeqsUpTo(_, _)
\* all sequences over alphabet A of length at most n
SeqsUpTo(A, n) ==
    IF n = 0 THEN {<<>>}
    ELSE LET shorter == SeqsUpTo(A, n - 1)
         IN  shorter \cup {Append(s, c) : s \in shorter, c \in A}

SeqToSet(s) == {s[i] : i \in 1..Len(s)}

\* an attribute that has not been assigned
Unset == <<"<unset>">>

DevSda == <<"/", "d", "e", "v", "/", "s", "d", "a">>
DevNvme == <<"/", "d", "e", "v", "/", "n", "v", "m", "e", "0", "n", "1">>

-----------------------------------------------------------------------------
(* Packages *)

CheckBoxes ==
    {"vscode", "vim_neovim", "git", "gimp", "vlc", "audacity", "libreoffice",
     "thunderbird"}

\* PackageSelectionWidget.setup_ui: the state of the widget when it is built
DefaultChecks ==
    [ full |-> TRUE, vscode |-> TRUE, vim_neovim |-> FALSE, git |-> TRUE,
      gimp |-> FALSE, vlc |-> TRUE, audacity |-> FALSE, libreoffice |-> TRUE,
      thunderbird |-> FALSE ]

\* every state the user can bring the widget to
AllChecks == [{"full"} \cup CheckBoxes -> BOOLEAN]

\* PackageSelectionWidget.get_packages
get_packages(c) ==
    LET base_packages ==
            << "base", "linux", "linux-firmware", "grub", "efibootmgr", "networkmanager",
               "enlightenment", "lightdm", "lightdm-gtk-greeter",
               "xorg", "xorg-server", "xorg-xinit",
               "pulseaudio", "pulseaudio-alsa",
               "flatpak", "firefox", "noto-fonts", "noto-fonts-cjk", "ttf-dejavu",
               "ttf-liberation" >>
        kde_apps ==
            << "ark", "dolphin", "gwenview", "kate", "konsole", "kwrite",
               "okular", "spectacle" >>
        gnome_apps ==
            << "gnome-calculator", "gnome-disk-utility", "gnome-screenshot",
               "gnome-system-monitor", "gnome-terminal", "gnome-text-editor",
               "nautilus", "evince", "gedit" >>
        utilities ==
            << "gparted", "pavucontrol", "network-manager-applet",
               "sudo", "nano", "vim", "wget", "curl", "zip", "unzip" >>
        packages == base_packages \o kde_apps \o gnome_apps \o utilities
    IN  IF c.full
        THEN packages
             \o (IF c.vscode THEN <<"code">> ELSE <<>>)
             \o (IF c.vim_neovim THEN <<"vim", "neovim">> ELSE <<>>)
             \o (IF c.git THEN <<"git", "base-devel">> ELSE <<>>)
             \o (IF c.gimp THEN <<"gimp">> ELSE <<>>)
             \o (IF c.vlc THEN <<"vlc">> ELSE <<>>)
             \o (IF c.audacity THEN <<"audacity">> ELSE <<>>)
             \o (IF c.libreoffice THEN <<"libreoffice-fresh">> ELSE <<>>)
             \o (IF c.thunderbird THEN <<"thunderbird">> ELSE <<>>)
        ELSE packages

\* _get_packages_list: base_packages
base_packages ==
    << "base", "base-devel", "linux", "linux-firmware",
       "networkmanager", "grub", "efibootmgr", "dosfstools",
       "mtools", "os-prober", "sudo", "nano", "vim" >>

\* _get_packages_list: kuns_packages
kuns_packages ==
    << "enlightenment", "terminology", "lightdm", "lightdm-gtk-greeter",
       "firefox", "dolphin", "kate", "konsole", "gwenview",
       "nautilus", "gnome-calculator", "gnome-screenshot",
       "flatpak", "noto-fonts", "noto-fonts-cjk", "ttf-dejavu", "ttf-liberation" >>

RECURSIVE Enumerate(_)
\* the elements of a finite set, once each, in some order
Enumerate(S) ==
    IF S = {} THEN <<>>
    ELSE LET x == CHOOSE x \in S : TRUE IN <<x>> \o Enumerate(S \ {x})

Rotate(s, r) == SubSeq(s, r + 1, Len(s)) \o SubSeq(s, 1, r)

\* list(set(l)): the elements of l once each; Python leaves the order of a
\* set open, so every rotation of one enumeration is a possible result
ListOfSet(l) ==
    LET s == Enumerate(SeqToSet(l)) IN {Rotate(s, r) : r \in 0..(Len(s) - 1)}

\* a wrong _get_packages_list: the lists are joined, duplicates stay
get_packages_list_joined(user_packages) ==
    {base_packages \o kuns_packages \o user_packages}

\* _get_packages_list: the lists it may return for config['packages']
get_packages_list(user_packages) ==
    ListOfSet(base_packages \o kuns_packages \o user_packages)

-----------------------------------------------------------------------------
(* Events: the four signals of the worker and what it does to the system *)

\* k: "status" | "progress" | "log" | "finished"   (signals)
\*    "cmd"  (a command handed to subprocess.Popen)
\*    "makedirs" | "write"  (direct directory and file operations)
\* s: text or template, a: interpolated values, n: number carried
Ev(k, s, a, n) == [k |-> k, s |-> s, a |-> a, n |-> n]

Progress(n) == Ev("progress", "", <<>>, n)
Finished(ok, msg) == Ev("finished", msg, <<>>, IF ok THEN 1 ELSE 0)

IsKind(k, e) == e.k = k

\* the events of kind k, in order
OfKind(es, k) == SelectSeq(es, LAMBDA e : IsKind(k, e))

Numbers(es) == [i \in 1..Len(es) |-> es[i].n]

\* the progress values emitted so far, in order
ProgressValues == Numbers(OfKind(events, "progress"))

-----------------------------------------------------------------------------
(* Statements of the stage functions *)

Op(op, s, a, mode, ref) == [op |-> op, s |-> s, a |-> a, mode |-> mode, ref |-> ref]

StatusOp(s) == Op("status", s, <<>>, "", "")
LogOp(s, a) == Op("log", s, a, "", "")
\* a wrong strict call: the result of the root chpasswd command is ignored
StrictButRootPassword(s, a) ==
    Op("cmd", s, a,
       IF s = "arch-chroot {self.mount_point} bash -c 'echo \"root:{root_password}\" | chpasswd'"
       THEN "best" ELSE "strict", "")

\* a wrong strict call: the result of the locale-gen command is ignored
StrictButLocaleGen(s, a) ==
    Op("cmd", s, a,
       IF s = "arch-chroot {self.mount_point} locale-gen" THEN "best" ELSE "strict", "")

\* a wrong strict call: the result of the useradd command is ignored
StrictButUseradd(s, a) ==
    Op("cmd", s, a,
       IF s = "arch-chroot {self.mount_point} useradd -m -G wheel -s /bin/bash {username}"
       THEN "best" ELSE "strict", "")

\* if not self._run_command(cmd): return False
Strict(s, a) == Op("cmd", s, a, "strict", "")
\* a wrong best-effort call: the result is checked as for a strict command
BestEffortChecked(s, a) == Op("cmd", s, a, "strict", "")

\* self._run_command(cmd, check=False)
BestEffort(s, a) == Op("cmd", s, a, "best", "")
\* a strict command whose text reads self.root_partition or self.efi_partition
StrictRef(s, ref) == Op("cmd", s, <<>>, "strict", ref)
SleepOp(s) == Op("sleep", s, <<>>, "", "")

-----------------------------------------------------------------------------
(* Partition naming *)

Nvme == <<"n", "v", "m", "e">>
Mmc == <<"m", "m", "c">>

\* _create_filesystems: efi_part, root_part
PartitionNames(disk) ==
    IF Contains(disk, Nvme) \/ Contains(disk, Mmc)
    THEN [efi |-> disk \o <<"p", "1">>, root |-> disk \o <<"p", "2">>]
    ELSE [efi |-> disk \o <<"1">>, root |-> disk \o <<"2">>]

\* a wrong boot_part: the MMC marker is forgotten
BootPartitionNvmeOnly(disk) ==
    IF Contains(disk, Nvme)
    THEN disk \o <<"p", "1">>
    ELSE disk \o <<"1">>

\* _install_bootloader: boot_part
BootPartition(disk) ==
    IF Contains(disk, Nvme) \/ Contains(disk, Mmc)
    THEN disk \o <<"p", "1">>
    ELSE disk \o <<"1">>

-----------------------------------------------------------------------------
(* The stage functions, as the statements they execute for a configuration *)

\* a wrong _prepare_disk: the disk is looked for after the unmount
prepare_disk_late_check(cfg) ==
    << StatusOp("Preparing disk..."),
       LogOp("Unmounting existing partitions...", <<>>),
       BestEffort("umount -R {self.mount_point}", <<>>),
       Op("check_disk", "Disk {disk} does not exist", <<cfg.disk>>, "", ""),
       LogOp("Creating new partition table...", <<>>),
       Strict("parted -s {disk} mklabel gpt", <<cfg.disk>>),
       LogOp("Creating EFI partition...", <<>>),
       Strict("parted -s {disk} mkpart primary fat32 1MiB 513MiB", <<cfg.disk>>),
       Strict("parted -s {disk} set 1 esp on", <<cfg.disk>>),
       LogOp("Creating root partition...", <<>>),
       Strict("parted -s {disk} mkpart primary ext4 513MiB 100%", <<cfg.disk>>),
       SleepOp("2"),
       BestEffort("partprobe", <<>>),
       SleepOp("1") >>

\* a wrong _prepare_disk: the partition table is read again before the root
\* partition is created
prepare_disk_probe_early(cfg) ==
    << StatusOp("Preparing disk..."),
       Op("check_disk", "Disk {disk} does not exist", <<cfg.disk>>, "", ""),
       LogOp("Unmounting existing partitions...", <<>>),
       BestEffort("umount -R {self.mount_point}", <<>>),
       LogOp("Creating new partition table...", <<>>),
       Strict("parted -s {disk} mklabel gpt", <<cfg.disk>>),
       LogOp("Creating EFI partition...", <<>>),
       Strict("parted -s {disk} mkpart primary fat32 1MiB 513MiB", <<cfg.disk>>),
       Strict("parted -s {disk} set 1 esp on", <<cfg.disk>>),
       SleepOp("2"),
       BestEffort("partprobe", <<>>),
       LogOp("Creating root partition...", <<>>),
       Strict("parted -s {disk} mkpart primary ext4 513MiB 100%", <<cfg.disk>>),
       SleepOp("1") >>

prepare_disk(cfg) ==
    << StatusOp("Preparing disk..."),
       Op("check_disk", "Disk {disk} does not exist", <<cfg.disk>>, "", ""),
       LogOp("Unmounting existing partitions...", <<>>),
       BestEffort("umount -R {self.mount_point}", <<>>),
       LogOp("Creating new partition table...", <<>>),
       Strict("parted -s {disk} mklabel gpt", <<cfg.disk>>),
       LogOp("Creating EFI partition...", <<>>),
       Strict("parted -s {disk} mkpart primary fat32 1MiB 513MiB", <<cfg.disk>>),
       Strict("parted -s {disk} set 1 esp on", <<cfg.disk>>),
       LogOp("Creating root partition...", <<>>),
       Strict("parted -s {disk} mkpart primary ext4 513MiB 100%", <<cfg.disk>>),
       SleepOp("2"),
       BestEffort("partprobe", <<>>),
       SleepOp("1") >>

\* a wrong _create_filesystems: the partition paths are stored before the
\* partitions are formatted
create_filesystems_store_first(cfg) ==
    LET part == PartitionNames(cfg.disk)
    IN  << StatusOp("Creating filesystems..."),
           Op("store", "", <<part.efi, part.root>>, "", ""),
           LogOp("Formatting EFI partition...", <<>>),
           Strict("mkfs.fat -F32 {efi_part}", <<part.efi>>),
           LogOp("Formatting root partition...", <<>>),
           Strict("mkfs.ext4 -F {root_part}", <<part.root>>) >>

create_filesystems(cfg) ==
    LET part == PartitionNames(cfg.disk)
    IN  << StatusOp("Creating filesystems..."),
           LogOp("Formatting EFI partition...", <<>>),
           Strict("mkfs.fat -F32 {efi_part}", <<part.efi>>),
           LogOp("Formatting root partition...", <<>>),
           Strict("mkfs.ext4 -F {root_part}", <<part.root>>),
           Op("store", "", <<part.efi, part.root>>, "", "") >>

\* a wrong _mount_filesystems: the boot mount point is created before the
\* root partition is mounted
mount_filesystems_boot_first(cfg) ==
    << StatusOp("Mounting filesystems..."),
       Op("makedirs", "{self.mount_point}", <<>>, "", ""),
       LogOp("Creating boot mount point...", <<>>),
       Op("makedirs", "{self.boot_mount}", <<>>, "", ""),
       LogOp("Mounting root partition...", <<>>),
       StrictRef("mount {self.root_partition} {self.mount_point}", "root"),
       LogOp("Mounting EFI partition...", <<>>),
       StrictRef("mount {self.efi_partition} {self.boot_mount}", "efi") >>

mount_filesystems(cfg) ==
    << StatusOp("Mounting filesystems..."),
       Op("makedirs", "{self.mount_point}", <<>>, "", ""),
       LogOp("Mounting root partition...", <<>>),
       StrictRef("mount {self.root_partition} {self.mount_point}", "root"),
       LogOp("Creating boot mount point...", <<>>),
       Op("makedirs", "{self.boot_mount}", <<>>, "", ""),
       LogOp("Mounting EFI partition...", <<>>),
       StrictRef("mount {self.efi_partition} {self.boot_mount}", "efi") >>

\* packages_str is not carried in the events: _get_packages_list is applied
\* by GetPackagesListCall
install_base_system(cfg) ==
    << StatusOp("Installing base system..."),
       LogOp("Installing packages: {packages_str}", <<>>),
       Strict("pacstrap {self.mount_point} {packages_str}", <<>>) >>

generate_fstab(cfg) ==
    << StatusOp("Generating fstab..."),
       LogOp("Generating fstab file...", <<>>),
       Strict("genfstab -U {self.mount_point} >> {self.mount_point}/etc/fstab", <<>>) >>

configure_system(cfg) ==
    << StatusOp("Configuring system..."),
       LogOp("Setting timezone to {timezone}", <<cfg.timezone>>),
       Strict("arch-chroot {self.mount_point} ln -sf /usr/share/zoneinfo/{timezone} /etc/localtime",
              <<cfg.timezone>>),
       Strict("arch-chroot {self.mount_point} hwclock --systohc", <<>>),
       LogOp("Setting locale to {locale}", <<cfg.locale>>),
       Strict("arch-chroot {self.mount_point} sed -i 's/^#{locale}/{locale}/' /etc/locale.gen",
              <<cfg.locale>>) >>
    \o (IF cfg.locale # "en_US.UTF-8"
        THEN << Strict("arch-chroot {self.mount_point} sed -i 's/^#en_US.UTF-8/en_US.UTF-8/' /etc/locale.gen",
                       <<>>) >>
        ELSE <<>>)
    \o << Strict("arch-chroot {self.mount_point} locale-gen", <<>>),
          Op("write", "{self.mount_point}/etc/locale.conf", <<cfg.locale>>, "", ""),
          Op("write", "{self.mount_point}/etc/vconsole.conf", <<cfg.keymap>>, "", ""),
          Op("write", "{self.mount_point}/etc/hostname", <<cfg.hostname>>, "", ""),
          Op("write", "{self.mount_point}/etc/hosts", <<cfg.hostname>>, "", "") >>
    \o (IF cfg.root_password # ""
        THEN << LogOp("Setting root password...", <<>>),
                Strict("arch-chroot {self.mount_point} bash -c 'echo \"root:{root_password}\" | chpasswd'",
                       <<cfg.root_password>>) >>
        ELSE <<>>)
    \o (IF cfg.username # "" /\ cfg.password # ""
        THEN << LogOp("Creating user {username}...", <<cfg.username>>),
                Strict("arch-chroot {self.mount_point} useradd -m -G wheel -s /bin/bash {username}",
                       <<cfg.username>>),
                Strict("arch-chroot {self.mount_point} bash -c 'echo \"{username}:{user_password}\" | chpasswd'",
                       <<cfg.username, cfg.password>>) >>
        ELSE <<>>)
    \o << LogOp("Configuring sudo...", <<>>),
          Strict("arch-chroot {self.mount_point} sed -i 's/^# %wheel ALL=(ALL:ALL) ALL/%wheel ALL=(ALL:ALL) ALL/' /etc/sudoers",
                 <<>>),
          LogOp("Enabling NetworkManager...", <<>>),
          Strict("arch-chroot {self.mount_point} systemctl enable NetworkManager", <<>>),
          LogOp("Enabling LightDM...", <<>>),
          Strict("arch-chroot {self.mount_point} systemctl enable lightdm", <<>>) >>

\* a wrong _install_bootloader: the BIOS path is tried before the EFI path
install_bootloader_bios_first(cfg) ==
    << StatusOp("Installing bootloader..."),
       Op("boot_part", "", <<BootPartition(cfg.disk)>>, "", ""),
       LogOp("Setting boot flag on EFI partition...", <<>>),
       BestEffort("parted {disk} set 1 boot on", <<cfg.disk>>),
       LogOp("Creating EFI boot directory...", <<>>),
       Strict("arch-chroot {self.mount_point} mkdir -p /boot/EFI", <<>>),
       LogOp("Installing GRUB for both EFI and BIOS...", <<>>),
       Op("cmd", "arch-chroot {self.mount_point} grub-install --target=i386-pc {disk}",
          <<cfg.disk>>, "bios", ""),
       Op("cmd", "arch-chroot {self.mount_point} grub-install --target=x86_64-efi --efi-directory=/boot --bootloader-id=KunsOS --no-nvram --removable",
          <<>>, "efi", ""),
       Op("logif", "EFI GRUB installation successful", <<>>, "efi", ""),
       Op("logif", "BIOS GRUB installation successful", <<>>, "bios", ""),
       Op("logif", "WARNING: Both EFI and BIOS installation failed!", <<>>, "neither", ""),
       LogOp("Generating GRUB configuration...", <<>>),
       Strict("arch-chroot {self.mount_point} grub-mkconfig -o /boot/grub/grub.cfg", <<>>),
       LogOp("Creating fallback boot entries...", <<>>),
       BestEffort("arch-chroot {self.mount_point} mkdir -p /boot/EFI/BOOT", <<>>),
       BestEffort("arch-chroot {self.mount_point} cp /boot/EFI/KunsOS/grubx64.efi /boot/EFI/BOOT/BOOTX64.EFI",
                  <<>>),
       Op("write", "{self.mount_point}/boot/grub/grub-standalone.cfg", <<>>, "", "root"),
       LogOp("Making disk bootable...", <<>>),
       BestEffort("parted {disk} set 1 legacy_boot on", <<cfg.disk>>) >>

install_bootloader(cfg) ==
    << StatusOp("Installing bootloader..."),
       Op("boot_part", "", <<BootPartition(cfg.disk)>>, "", ""),
       LogOp("Setting boot flag on EFI partition...", <<>>),
       BestEffort("parted {disk} set 1 boot on", <<cfg.disk>>),
       LogOp("Creating EFI boot directory...", <<>>),
       Strict("arch-chroot {self.mount_point} mkdir -p /boot/EFI", <<>>),
       LogOp("Installing GRUB for both EFI and BIOS...", <<>>),
       Op("cmd", "arch-chroot {self.mount_point} grub-install --target=x86_64-efi --efi-directory=/boot --bootloader-id=KunsOS --no-nvram --removable",
          <<>>, "efi", ""),
       Op("cmd", "arch-chroot {self.mount_point} grub-install --target=i386-pc {disk}",
          <<cfg.disk>>, "bios", ""),
       Op("logif", "EFI GRUB installation successful", <<>>, "efi", ""),
       Op("logif", "BIOS GRUB installation successful", <<>>, "bios", ""),
       Op("logif", "WARNING: Both EFI and BIOS installation failed!", <<>>, "neither", ""),
       LogOp("Generating GRUB configuration...", <<>>),
       Strict("arch-chroot {self.mount_point} grub-mkconfig -o /boot/grub/grub.cfg", <<>>),
       LogOp("Creating fallback boot entries...", <<>>),
       BestEffort("arch-chroot {self.mount_point} mkdir -p /boot/EFI/BOOT", <<>>),
       BestEffort("arch-chroot {self.mount_point} cp /boot/EFI/KunsOS/grubx64.efi /boot/EFI/BOOT/BOOTX64.EFI",
                  <<>>),
       Op("write", "{self.mount_point}/boot/grub/grub-standalone.cfg", <<>>, "", "root"),
       LogOp("Making disk bootable...", <<>>),
       BestEffort("parted {disk} set 1 legacy_boot on", <<cfg.disk>>) >>

\* a wrong _cleanup_installation: the unmount is a strict command
cleanup_installation_strict(cfg) ==
    << StatusOp("Cleaning up..."),
       LogOp("Unmounting filesystems...", <<>>),
       Strict("umount -R {self.mount_point}", <<>>),
       LogOp("Installation cleanup completed", <<>>) >>

cleanup_installation(cfg) ==
    << StatusOp("Cleaning up..."),
       LogOp("Unmounting filesystems...", <<>>),
       BestEffort("umount -R {self.mount_point}", <<>>),
       LogOp("Installation cleanup completed", <<>>) >>

\* the stage functions in the order run calls them
NumStages == 8

\* a wrong order of the stage functions: the base system is installed before
\* the filesystems are mounted
StageFunctionBaseFirst(k, cfg) ==
    CASE k = 1 -> prepare_disk(cfg)
      [] k = 2 -> create_filesystems(cfg)
      [] k = 3 -> install_base_system(cfg)
      [] k = 4 -> mount_filesystems(cfg)
      [] k = 5 -> generate_fstab(cfg)
      [] k = 6 -> configure_system(cfg)
      [] k = 7 -> install_bootloader(cfg)
      [] k = 8 -> cleanup_installation(cfg)

StageFunction(k, cfg) ==
    CASE k = 1 -> prepare_disk(cfg)
      [] k = 2 -> create_filesystems(cfg)
      [] k = 3 -> mount_filesystems(cfg)
      [] k = 4 -> install_base_system(cfg)
      [] k = 5 -> generate_fstab(cfg)
      [] k = 6 -> configure_system(cfg)
      [] k = 7 -> install_bootloader(cfg)
      [] k = 8 -> cleanup_installation(cfg)

-----------------------------------------------------------------------------
(* The command runner *)

\* how a call of _run_command can go: the process exits with status 0, exits
\* with another status, or Popen / reading its output raises (in a run of the
\* stages: Popen raises, no child process is left)
Outcomes == {"exit0", "nonzero", "exception"}

\* the characters str.strip() removes
Whitespace == {" ", "\n"}

RECURSIVE ReadLines(_)
\* iter(process.stdout.readline, ''): the text read from the child, cut after
\* every newline; a last piece without newline is a line too
ReadLines(text) ==
    IF text = <<>> THEN <<>>
    ELSE LET ends == {i \in 1..Len(text) : text[i] = "\n"}
             n == IF ends = {} THEN Len(text)
                  ELSE CHOOSE i \in ends : \A j \in ends : i <= j
         IN  <<SubSeq(text, 1, n)>> \o ReadLines(SubSeq(text, n + 1, Len(text)))

\* a wrong strip: only the leading whitespace is removed
StripLeft(line) ==
    LET kept == {i \in 1..Len(line) : line[i] \notin Whitespace}
    IN  IF kept = {} THEN <<>>
        ELSE SubSeq(line, CHOOSE i \in kept : \A j \in kept : i <= j, Len(line))

\* line.strip(): the line without its leading and trailing whitespace
Strip(line) ==
    LET kept == {i \in 1..Len(line) : line[i] \notin Whitespace}
    IN  IF kept = {} THEN <<>>
        ELSE SubSeq(line, CHOOSE i \in kept : \A j \in kept : i <= j,
                          CHOOSE i \in kept : \A j \in kept : j <= i)

\* _run_command: the loop over the lines read; a line that is empty after
\* strip() is skipped, the others are emitted stripped
Forwarded(text) ==
    LET lines == ReadLines(text)
        stripped == [i \in 1..Len(lines) |-> Strip(lines[i])]
        kept == SelectSeq(stripped, LAMBDA l : l # <<>>)
    IN  [i \in 1..Len(kept) |-> Ev("log", "{line}", <<kept[i]>>, 0)]

\* wrong events: the return code is reported for every nonzero exit, also
\* when check is false
RunCommandEventsAlwaysReported(s, a, check, outcome, output) ==
    << Ev("log", "Executing: {cmd}", <<s, a>>, 0),
       Ev("cmd", s, a, IF check THEN 1 ELSE 0) >>
    \o Forwarded(output)
    \o (IF outcome = "exception"
        THEN << Ev("log", "Command execution error: {str(e)}", <<>>, 0) >>
        ELSE IF outcome = "nonzero"
        THEN << Ev("log", "Command failed with return code {process.returncode}", <<>>, 0) >>
        ELSE <<>>)

\* a wrong _run_command: the Executing line names the command without the
\* values formatted into it
RunCommandEventsMasked(s, a, check, outcome, output) ==
    << Ev("log", "Executing: {cmd}", <<s, <<>>>>, 0),
       Ev("cmd", s, a, IF check THEN 1 ELSE 0) >>
    \o Forwarded(output)
    \o (IF outcome = "exception"
        THEN << Ev("log", "Command execution error: {str(e)}", <<>>, 0) >>
        ELSE IF check /\ outcome = "nonzero"
        THEN << Ev("log", "Command failed with return code {process.returncode}", <<>>, 0) >>
        ELSE <<>>)

\* _run_command: what it emits and invokes; output is the text read from the
\* child before it exited or before the exception
RunCommandEvents(s, a, check, outcome, output) ==
    << Ev("log", "Executing: {cmd}", <<s, a>>, 0),
       Ev("cmd", s, a, IF check THEN 1 ELSE 0) >>
    \o Forwarded(output)
    \o (IF outcome = "exception"
        THEN << Ev("log", "Command execution error: {str(e)}", <<>>, 0) >>
        ELSE IF check /\ outcome = "nonzero"
        THEN << Ev("log", "Command failed with return code {process.returncode}", <<>>, 0) >>
        ELSE <<>>)

\* a wrong result: check is not looked at, every nonzero exit gives False
RunCommandResultAlwaysChecked(check, outcome) ==
    IF outcome = "exception" THEN FALSE
    ELSE IF outcome = "nonzero" THEN FALSE
    ELSE TRUE

\* a wrong result: with check false the exception is taken for a success
RunCommandResultErrorIgnored(check, outcome) ==
    IF outcome = "exception" THEN check = FALSE
    ELSE IF check /\ outcome = "nonzero" THEN FALSE
    ELSE TRUE

\* _run_command: the value it returns
RunCommandResult(check, outcome) ==
    IF outcome = "exception" THEN FALSE
    ELSE IF check /\ outcome = "nonzero" THEN FALSE
    ELSE TRUE

\* no call of _run_command is followed on its own
NoCall == [s |-> "", a |-> <<>>, check |-> TRUE, outcome |-> "none", output |-> <<>>]

\* in a run the text the commands print is left out: it adds log lines
\* only, and no stage function reads it
Quiet == <<>>

-----------------------------------------------------------------------------
(* The orchestrator: ArchInstallThread.run *)

\* wrong checkpoints: the value after stage 5 repeats the one after stage 4
CheckpointRepeated(k) ==
    CASE k = 1 -> 15
      [] k = 2 -> 25
      [] k = 3 -> 35
      [] k = 4 -> 60
      [] k = 5 -> 60
      [] k = 6 -> 85
      [] k = 7 -> 95
      [] k = 8 -> 100

\* self.progress.emit(...) after stage k
Checkpoint(k) ==
    CASE k = 1 -> 15
      [] k = 2 -> 25
      [] k = 3 -> 35
      [] k = 4 -> 60
      [] k = 5 -> 65
      [] k = 6 -> 85
      [] k = 7 -> 95
      [] k = 8 -> 100

\* wrong messages: the message of stage 5 is a copy of the one of stage 4
FailureMessageCopied(k) ==
    CASE k = 1 -> "Disk preparation failed"
      [] k = 2 -> "Filesystem creation failed"
      [] k = 3 -> "Filesystem mounting failed"
      [] k = 4 -> "Base system installation failed"
      [] k = 5 -> "Base system installation failed"
      [] k = 6 -> "System configuration failed"
      [] k = 7 -> "Bootloader installation failed"

\* self.finished.emit(False, ...) when stage k returns false
FailureMessage(k) ==
    CASE k = 1 -> "Disk preparation failed"
      [] k = 2 -> "Filesystem creation failed"
      [] k = 3 -> "Filesystem mounting failed"
      [] k = 4 -> "Base system installation failed"
      [] k = 5 -> "fstab generation failed"
      [] k = 6 -> "System configuration failed"
      [] k = 7 -> "Bootloader installation failed"

SuccessMessage == "Kuns OS installation completed successfully!"
ErrorMessage == "Installation error: {str(e)}"

\* UserConfigWidget.setup_ui: the texts the line edits are built with
HostnameDefault == <<"k", "u", "n", "s", "-", "o", "s">>
UsernameDefault == <<"k", "u", "n", "s", "o", "s">>
DefaultFields ==
    [ hostname |-> HostnameDefault, username |-> UsernameDefault, password |-> <<>>,
      confirm |-> <<>>, root_password |-> <<>> ]

\* the texts a user types into the line edits
FieldInputs ==
    [ hostname : {<<>>, HostnameDefault},
      username : {<<>>, <<" ">>, UsernameDefault},
      password : {<<>>, <<"p", "w">>},
      confirm : {<<>>, <<"p", "w">>},
      root_password : {<<>>, <<"r", "o", "o", "t", "p", "w">>} ]

\* the text of a line edit as the string the worker passes on
Text(s) ==
    CASE s = <<>> -> ""
      [] s = <<" ">> -> " "
      [] s = HostnameDefault -> "kuns-os"
      [] s = UsernameDefault -> "kunsos"
      [] s = <<"p", "w">> -> "pw"
      [] s = <<"r", "o", "o", "t", "p", "w">> -> "rootpw"

\* a wrong validate: the confirmation is not compared with the password
validate_without_confirm(f) ==
    /\ Strip(f.hostname) # <<>>
    /\ Strip(f.username) # <<>>
    /\ f.password # <<>>
    /\ f.root_password # <<>>

\* UserConfigWidget.validate
validate(f) ==
    /\ Strip(f.hostname) # <<>>
    /\ Strip(f.username) # <<>>
    /\ f.password # <<>>
    /\ f.password = f.confirm
    /\ f.root_password # <<>>

\* UserConfigWidget.get_config
get_config(f) ==
    [ hostname |-> Text(Strip(f.hostname)),
      username |-> Text(Strip(f.username)),
      password |-> Text(f.password),
      root_password |-> Text(f.root_password),
      timezone |-> "UTC",
      keyboard |-> "us" ]

\* start_install: the configuration the thread is constructed with
BuildConfig(disk, f, packages) ==
    LET user_config == get_config(f)
    IN  [ disk |-> disk,
          hostname |-> user_config.hostname,
          username |-> user_config.username,
          password |-> user_config.password,
          root_password |-> user_config.root_password,
          keymap |-> user_config.keyboard,
          timezone |-> user_config.timezone,
          locale |-> "en_US.UTF-8",
          packages |-> packages ]

\* the devices the disk table can list
Disks == {DevSda, DevNvme}

\* get_selected_disk() when no radio button is checked
NoDisk == <<>>

\* the configurations start_install can build
WizardConfigs ==
    {BuildConfig(d, f, get_packages(DefaultChecks)) : d \in Disks, f \in FieldInputs}

\* the configurations a run is started with
\* a plain disk with the locale start_install always passes, and an NVMe disk
\* with another locale (the branch of _configure_system that also enables
\* en_US.UTF-8)
Targets == { [disk |-> DevSda, locale |-> "en_US.UTF-8"],
             [disk |-> DevNvme, locale |-> "ko_KR.UTF-8"] }

\* the account settings of a run: every field set, and the combinations of
\* empty fields
FullAccount == [username |-> "kunsos", password |-> "pw", root_password |-> "rootpw"]
Accounts ==
    { FullAccount,
      [username |-> "", password |-> "", root_password |-> ""],
      [username |-> "kunsos", password |-> "", root_password |-> "rootpw"],
      [username |-> "", password |-> "pw", root_password |-> "rootpw"],
      [username |-> "kunsos", password |-> "pw", root_password |-> ""] }

\* every account on the plain disk, the full account on the NVMe disk
Configs ==
    { [ disk |-> r[1].disk,
        hostname |-> "kuns-os",
        username |-> r[2].username,
        password |-> r[2].password,
        root_password |-> r[2].root_password,
        keymap |-> "us",
        timezone |-> "UTC",
        locale |-> r[1].locale,
        packages |-> get_packages(DefaultChecks) ] :
      r \in {q \in Targets \X Accounts : q[1].disk = DevSda \/ q[2] = FullAccount} }

\* the statements of every stage function for every configuration
Statements ==
    [cfg \in Configs \cup WizardConfigs |-> [k \in 1..NumStages |-> StageFunction(k, cfg)]]

\* what the disk can carry: no partition table, or one (of an earlier run or
\* of anything else)
Tables == {"none", "gpt"}

\* the partition table of the disk once the child of command s has exited:
\* mklabel gpt writes a new one when it succeeds, and may or may not have
\* written it when it fails; no other command of the run writes one
DiskAfter(s, outcome) ==
    IF s # "parted -s {disk} mklabel gpt" THEN {table}
    ELSE IF outcome = "exit0" THEN {"gpt"}
    ELSE {table, "gpt"}

\* what is mounted under the mount point once the child of command s has
\* exited: a mount command that succeeds adds its partition; umount -R that
\* succeeds leaves nothing mounted, and one that fails has unmounted the EFI
\* partition or nothing
MountsAfter(s, outcome) ==
    IF s = "mount {self.root_partition} {self.mount_point}"
    THEN {IF outcome = "exit0" THEN mounts \cup {"root"} ELSE mounts}
    ELSE IF s = "mount {self.efi_partition} {self.boot_mount}"
    THEN {IF outcome = "exit0" THEN mounts \cup {"efi"} ELSE mounts}
    ELSE IF s = "umount -R {self.mount_point}"
    THEN IF outcome = "exit0" THEN {{}} ELSE {mounts, mounts \ {"efi"}}
    ELSE {mounts}

\* what _run_command emits after Popen when the child was spawned, and all it
\* emits when it is taken in one step
Rest(lines) == SubSeq(lines, IF child = 0 THEN 1 ELSE 3, Len(lines))

\* the statements of the stage function being executed
Program == Statements[config][stage]
InStage == pc = "stage" /\ ip <= Len(Program)
Cur == Program[ip]

Emit(e) == events' = Append(events, e)

\* the worker calls the next stage function
Call(k) == /\ pc' = "stage"
           /\ stage' = k
           /\ ip' = 1

\* the stage function returns v to run
Return(v) == /\ pc' = "ret"
             /\ ret' = v
             /\ stageResults' = Append(stageResults, [stage |-> stage, result |-> v])
             /\ UNCHANGED <<stage, ip>>

\* an exception leaves the stage function
Raise == /\ pc' = "except"
         /\ stageResults' = Append(stageResults, [stage |-> stage, result |-> "raised"])
         /\ UNCHANGED <<stage, ip, ret>>

Advance == /\ ip' = ip + 1
           /\ UNCHANGED <<pc, stage, ret, stageResults>>

widget == <<checks, packages_list>>
gui == <<current_page, prev_enabled, prev_visible, next_visible, install_visible,
         selected_disk, fields, orphans>>
attrs == <<efi_partition, root_partition, boot_part, efi_success, bios_success,
           efi_outcome, bios_outcome>>

\* run: self.status.emit("Starting installation...")
RunStart ==
    /\ pc = "start"
    /\ Emit(Ev("status", "Starting installation...", <<>>, 0))
    /\ pc' = "progress0"
    /\ UNCHANGED <<config, diskExists, stage, ip, ret, stageResults, attrs, closed,
                   widget, call, gui, child, table, mounts>>

\* run: self.progress.emit(0), then the call of _prepare_disk
RunProgress0 ==
    /\ pc = "progress0"
    /\ Emit(Progress(0))
    /\ Call(1)
    /\ UNCHANGED <<config, diskExists, ret, stageResults, attrs, closed, widget, call, gui, child,
                   table, mounts>>

\* a wrong failure branch: the terminal event of a failed stage carries the
\* success flag and message
RunStageFailedAsSuccess ==
    /\ pc = "ret"
    /\ stage <= 7
    /\ ret = "False"
    /\ Emit(Finished(TRUE, SuccessMessage))
    /\ pc' = "done"
    /\ UNCHANGED <<config, diskExists, stage, ip, ret, stageResults, attrs, closed,
                   widget, call, gui, child, table, mounts>>

\* a wrong failure branch: finished is emitted but the return is missing, so
\* run goes on as if the stage had passed
RunStageFailedNoReturn ==
    /\ pc = "ret"
    /\ stage <= 7
    /\ ret = "False"
    /\ Emit(Finished(FALSE, FailureMessage(stage)))
    /\ ret' = "True"
    /\ UNCHANGED <<config, diskExists, pc, stage, ip, stageResults, attrs, closed,
                   widget, call, gui, child, table, mounts>>

\* a wrong run: the target is unmounted before the failure is reported
RunStageFailedUnmounts ==
    /\ pc = "ret"
    /\ stage <= 7
    /\ ret = "False"
    /\ events' = events \o << Ev("cmd", "umount -R {self.mount_point}", <<>>, 0),
                              Finished(FALSE, FailureMessage(stage)) >>
    /\ pc' = "done"
    /\ UNCHANGED <<config, diskExists, stage, ip, ret, stageResults, attrs, closed,
                   widget, call, gui, child, table, mounts>>

\* run: if not self._stage(): self.finished.emit(False, message); return
RunStageFailed ==
    /\ pc = "ret"
    /\ stage <= 7
    /\ ret = "False"
    /\ Emit(Finished(FALSE, FailureMessage(stage)))
    /\ pc' = "done"
    /\ UNCHANGED <<config, diskExists, stage, ip, ret, stageResults, attrs, closed,
                   widget, call, gui, child, table, mounts>>

\* a wrong run: the value the stage function returned is not looked at
RunStagePassedUngated ==
    /\ pc = "ret"
    /\ stage <= 7
    /\ Emit(Progress(Checkpoint(stage)))
    /\ Call(stage + 1)
    /\ UNCHANGED <<config, diskExists, ret, stageResults, attrs, closed, widget, call, gui, child,
                   table, mounts>>

\* run: self.progress.emit(checkpoint), then the call of the next stage
RunStagePassed ==
    /\ pc = "ret"
    /\ stage <= 7
    /\ ret # "False"
    /\ Emit(Progress(Checkpoint(stage)))
    /\ Call(stage + 1)
    /\ UNCHANGED <<config, diskExists, ret, stageResults, attrs, closed, widget, call, gui, child,
                   table, mounts>>

\* run: self.progress.emit(100) after _cleanup_installation()
RunProgress100 ==
    /\ pc = "ret"
    /\ stage = 8
    /\ Emit(Progress(Checkpoint(8)))
    /\ pc' = "completed"
    /\ UNCHANGED <<config, diskExists, stage, ip, ret, stageResults, attrs, closed,
                   widget, call, gui, child, table, mounts>>

\* a wrong run: the completion status is not emitted
RunCompletedSilent ==
    /\ pc = "completed"
    /\ pc' = "success"
    /\ UNCHANGED <<config, diskExists, stage, ip, ret, events, stageResults, attrs, closed,
                   widget, call, gui, child, table, mounts>>

\* run: self.status.emit("Installation completed successfully!")
RunCompleted ==
    /\ pc = "completed"
    /\ Emit(Ev("status", "Installation completed successfully!", <<>>, 0))
    /\ pc' = "success"
    /\ UNCHANGED <<config, diskExists, stage, ip, ret, stageResults, attrs, closed,
                   widget, call, gui, child, table, mounts>>

\* run: self.finished.emit(True, ...)
RunSuccess ==
    /\ pc = "success"
    /\ Emit(Finished(TRUE, SuccessMessage))
    /\ pc' = "done"
    /\ UNCHANGED <<config, diskExists, stage, ip, ret, stageResults, attrs, closed,
                   widget, call, gui, child, table, mounts>>

\* a wrong handler: the log line is missing
RunExceptNoLog ==
    /\ pc = "except"
    /\ pc' = "except_finished"
    /\ UNCHANGED <<config, diskExists, stage, ip, ret, events, stageResults, attrs, closed,
                   widget, call, gui, child, table, mounts>>

\* run: except Exception: self.log_output.emit(...)
RunExceptLog ==
    /\ pc = "except"
    /\ Emit(Ev("log", ErrorMessage, <<>>, 0))
    /\ pc' = "except_finished"
    /\ UNCHANGED <<config, diskExists, stage, ip, ret, stageResults, attrs, closed,
                   widget, call, gui, child, table, mounts>>

\* a wrong handler: the exception is swallowed and nothing is reported
RunExceptSilent ==
    /\ pc = "except_finished"
    /\ pc' = "done"
    /\ UNCHANGED <<config, diskExists, stage, ip, ret, events, stageResults, attrs, closed,
                   widget, call, gui, child, table, mounts>>

\* run: except Exception: self.finished.emit(False, ...)
RunExceptFinished ==
    /\ pc = "except_finished"
    /\ Emit(Finished(FALSE, ErrorMessage))
    /\ pc' = "done"
    /\ UNCHANGED <<config, diskExists, stage, ip, ret, stageResults, attrs, closed,
                   widget, call, gui, child, table, mounts>>

-----------------------------------------------------------------------------
(* The statements of the stage functions *)

\* the value of the attribute a statement reads
Attribute(ref) == IF ref = "root" THEN root_partition ELSE efi_partition

\* self.status.emit(...) and self.log_output.emit(...) in a stage function
StageEmit ==
    /\ InStage
    /\ Cur.op \in {"status", "log"}
    /\ Emit(Ev(Cur.op, Cur.s, Cur.a, 0))
    /\ Advance
    /\ UNCHANGED <<config, diskExists, attrs, closed, widget, call, gui, child, table, mounts>>

\* a wrong _prepare_disk: a disk that carries a partition table is left as it
\* is, the stage function goes on with the EFI partition
CheckDiskKeepsTable ==
    /\ InStage
    /\ Cur.op = "check_disk"
    /\ IF diskExists
       THEN /\ ip' = IF table = "gpt" THEN ip + 5 ELSE ip + 1
            /\ UNCHANGED <<pc, stage, ret, stageResults, events>>
       ELSE Emit(Ev("log", Cur.s, Cur.a, 0)) /\ Return("False")
    /\ UNCHANGED <<config, diskExists, attrs, closed, widget, call, gui, child, table, mounts>>

\* _prepare_disk: if not os.path.exists(disk): log, return False
CheckDisk ==
    /\ InStage
    /\ Cur.op = "check_disk"
    /\ IF diskExists
       THEN Advance /\ UNCHANGED events
       ELSE Emit(Ev("log", Cur.s, Cur.a, 0)) /\ Return("False")
    /\ UNCHANGED <<config, diskExists, attrs, closed, widget, call, gui, child, table, mounts>>

\* _prepare_disk: time.sleep(...)
Sleep ==
    /\ InStage
    /\ Cur.op = "sleep"
    /\ Advance
    /\ UNCHANGED <<config, diskExists, events, attrs, closed, widget, call, gui, child, table, mounts>>

\* a wrong call of the two grub-install commands: they are checked like the
\* strict commands, so a failed install makes the stage function return False
CommandStepInstallStrict(s, a, mode, outcome) ==
    LET check == mode \in {"strict", "efi", "bios"}
        result == RunCommandResult(check, outcome)
    IN  /\ events' = events \o Rest(RunCommandEvents(s, a, check, outcome, Quiet))
        /\ child' = 0
        /\ IF check /\ ~result
           THEN Return("False")
           ELSE Advance
        /\ efi_success' = IF mode = "efi" THEN result ELSE efi_success
        /\ bios_success' = IF mode = "bios" THEN result ELSE bios_success
        /\ efi_outcome' = IF mode = "efi" THEN outcome ELSE efi_outcome
        /\ bios_outcome' = IF mode = "bios" THEN outcome ELSE bios_outcome
        /\ UNCHANGED <<efi_partition, root_partition, boot_part>>

\* a wrong call of _run_command: without the try/except of the runner, a
\* failure to spawn or read leaves the stage function as an exception
CommandStepUncaught(s, a, mode, outcome) ==
    LET check == mode = "strict"
        result == RunCommandResult(check, outcome)
    IN  IF outcome = "exception"
        THEN /\ events' = events \o SubSeq(RunCommandEvents(s, a, check, outcome, Quiet), 1, 2)
             /\ Raise
             /\ UNCHANGED <<attrs, child>>
        ELSE /\ events' = events \o Rest(RunCommandEvents(s, a, check, outcome, Quiet))
             /\ child' = 0
             /\ IF mode = "strict" /\ ~result
                THEN Return("False")
                ELSE Advance
             /\ efi_success' = IF mode = "efi" THEN result ELSE efi_success
             /\ bios_success' = IF mode = "bios" THEN result ELSE bios_success
             /\ efi_outcome' = IF mode = "efi" THEN outcome ELSE efi_outcome
             /\ bios_outcome' = IF mode = "bios" THEN outcome ELSE bios_outcome
             /\ UNCHANGED <<efi_partition, root_partition, boot_part>>

\* a call of _run_command(cmd, check) that goes as outcome says, and what the
\* stage function does with the value returned
CommandStep(s, a, mode, outcome) ==
    LET check == mode = "strict"
        result == RunCommandResult(check, outcome)
    IN  /\ events' = events \o Rest(RunCommandEvents(s, a, check, outcome, Quiet))
        /\ child' = 0
        /\ IF mode = "strict" /\ ~result
           THEN Return("False")
           ELSE Advance
        /\ efi_success' = IF mode = "efi" THEN result ELSE efi_success
        /\ bios_success' = IF mode = "bios" THEN result ELSE bios_success
        /\ efi_outcome' = IF mode = "efi" THEN outcome ELSE efi_outcome
        /\ bios_outcome' = IF mode = "bios" THEN outcome ELSE bios_outcome
        /\ UNCHANGED <<efi_partition, root_partition, boot_part>>

\* a statement of a stage function that calls _run_command, up to Popen: the
\* command text is formatted, the Executing line is emitted, and Popen
\* spawns the child process or raises
StageCommandStart ==
    /\ InStage
    /\ Cur.op = "cmd"
    /\ child = 0
    /\ IF Cur.ref # "" /\ Attribute(Cur.ref) = Unset
       THEN \* AttributeError while the command text is formatted
            /\ Raise
            /\ UNCHANGED <<events, attrs, child>>
       ELSE LET a == IF Cur.ref # "" THEN <<Attribute(Cur.ref)>> ELSE Cur.a
            IN  \/ CommandStep(Cur.s, a, Cur.mode, "exception")
                \/ /\ events' = events \o SubSeq(RunCommandEvents(Cur.s, a,
                                                       Cur.mode = "strict", "exit0", Quiet),
                                                   1, 2)
                   /\ child' = 1
                   /\ UNCHANGED <<pc, stage, ip, ret, stageResults, attrs>>
    /\ UNCHANGED <<config, diskExists, closed, widget, call, gui, table, mounts>>

\* the rest of the call: the output is read until the child closes it,
\* process.wait() returns, and the stage function goes on with the result
StageCommand ==
    /\ InStage
    /\ Cur.op = "cmd"
    /\ child = 1
    /\ \E outcome \in Outcomes \ {"exception"} :
           /\ CommandStep(Cur.s,
                          IF Cur.ref # "" THEN <<Attribute(Cur.ref)>> ELSE Cur.a,
                          Cur.mode, outcome)
           /\ table' \in DiskAfter(Cur.s, outcome)
           /\ mounts' \in MountsAfter(Cur.s, outcome)
    /\ UNCHANGED <<config, diskExists, closed, widget, call, gui>>

\* os.makedirs(..., exist_ok=True) and with open(..., "w") as f: f.write(...)
\* in a stage function: done, or an OSError leaves the stage function
StageIO ==
    /\ InStage
    /\ Cur.op \in {"makedirs", "write"}
    /\ IF Cur.ref # "" /\ Attribute(Cur.ref) = Unset
       THEN Raise /\ UNCHANGED events
       ELSE \E ok \in BOOLEAN :
            IF ok
            THEN /\ Emit(Ev(Cur.op, Cur.s,
                            IF Cur.ref # "" THEN <<Attribute(Cur.ref)>> ELSE Cur.a, 0))
                 /\ Advance
            ELSE Raise /\ UNCHANGED events
    /\ UNCHANGED <<config, diskExists, attrs, closed, widget, call, gui, child, table, mounts>>

\* _create_filesystems: self.efi_partition = efi_part; self.root_partition = root_part
StorePartitions ==
    /\ InStage
    /\ Cur.op = "store"
    /\ efi_partition' = Cur.a[1]
    /\ root_partition' = Cur.a[2]
    /\ Advance
    /\ UNCHANGED <<config, diskExists, events, boot_part, efi_success, bios_success,
                   efi_outcome, bios_outcome, closed, widget, call, gui, child, table, mounts>>

\* _install_bootloader: boot_part = ...
DeriveBootPartition ==
    /\ InStage
    /\ Cur.op = "boot_part"
    /\ boot_part' = Cur.a[1]
    /\ Advance
    /\ UNCHANGED <<config, diskExists, events, efi_partition, root_partition,
                   efi_success, bios_success, efi_outcome, bios_outcome, closed, widget, call,
                   gui, child, table, mounts>>

\* _install_bootloader: the log lines that depend on efi_success and bios_success
BootloaderReport ==
    /\ InStage
    /\ Cur.op = "logif"
    /\ LET cond == CASE Cur.mode = "efi" -> efi_success
                     [] Cur.mode = "bios" -> bios_success
                     [] Cur.mode = "neither" -> ~efi_success /\ ~bios_success
       IN  IF cond THEN Emit(Ev("log", Cur.s, Cur.a, 0)) ELSE UNCHANGED events
    /\ Advance
    /\ UNCHANGED <<config, diskExists, attrs, closed, widget, call, gui, child, table, mounts>>

\* return True at the end of a stage function (_cleanup_installation has no
\* return statement and returns None)
StageReturn ==
    /\ pc = "stage"
    /\ ip > Len(Program)
    /\ Return(IF stage = 8 THEN "None" ELSE "True")
    /\ UNCHANGED <<config, diskExists, events, attrs, closed, widget, call, gui, child, table, mounts>>

-----------------------------------------------------------------------------
(* KunsInstaller.closeEvent *)

\* self.install_thread.isRunning()
IsRunning == pc \notin {"idle", "done", "delivered", "terminated"}

\* a wrong closeEvent: the target is unmounted when the thread is terminated
CloseTerminateUnmounts ==
    /\ ~closed
    /\ IsRunning
    /\ pc' = "terminated"
    /\ closed' = TRUE
    /\ Emit(Ev("cmd", "umount -R {self.mount_point}", <<>>, 0))
    /\ UNCHANGED <<config, diskExists, stage, ip, ret, stageResults, attrs,
                   widget, call, gui, child, table, mounts>>

\* closeEvent while the thread runs, answered Yes: terminate(), wait(), accept
CloseTerminate ==
    /\ ~closed
    /\ IsRunning
    /\ pc' = "terminated"
    /\ closed' = TRUE
    /\ UNCHANGED <<config, diskExists, stage, ip, ret, events, stageResults, attrs,
                   widget, call, gui, child, table, mounts>>

\* closeEvent when no thread runs: accept
CloseAccept ==
    /\ ~closed
    /\ ~IsRunning
    /\ closed' = TRUE
    /\ UNCHANGED <<config, diskExists, pc, stage, ip, ret, events, stageResults, attrs,
                   widget, call, gui, child, table, mounts>>

-----------------------------------------------------------------------------
(* Specification of a run *)

\* the buttons as create_buttons and update_page leave them on a page
WindowAt(page) ==
    /\ current_page = page
    /\ prev_enabled = (page \in 1..3)
    /\ prev_visible = TRUE
    /\ next_visible = (page < 3)
    /\ install_visible = (page = 3)
    /\ orphans = 0

\* the thread has been constructed with a configuration and started
Init ==
    /\ config \in Configs
    /\ diskExists \in BOOLEAN
    /\ pc = "start"
    /\ stage = 0
    /\ ip = 0
    /\ ret = "None"
    /\ events = <<>>
    /\ stageResults = <<>>
    /\ efi_partition = Unset
    /\ root_partition = Unset
    /\ boot_part = Unset
    /\ efi_success = FALSE
    /\ bios_success = FALSE
    /\ efi_outcome = "none"
    /\ bios_outcome = "none"
    /\ closed = FALSE
    /\ child = 0
    /\ table \in Tables
    /\ mounts = {}
    /\ checks = DefaultChecks
    /\ packages_list = <<>>
    /\ call = NoCall
    /\ WindowAt(4)
    /\ selected_disk = config.disk
    /\ fields = DefaultFields

Worker ==
    \/ RunStart
    \/ RunProgress0
    \/ RunStageFailed
    \/ RunStagePassed
    \/ RunProgress100
    \/ RunCompleted
    \/ RunSuccess
    \/ RunExceptLog
    \/ RunExceptFinished
    \/ StageEmit
    \/ CheckDisk
    \/ Sleep
    \/ StageCommandStart
    \/ StageCommand
    \/ StageIO
    \/ StorePartitions
    \/ DeriveBootPartition
    \/ BootloaderReport
    \/ StageReturn

Next == Worker \/ CloseTerminate \/ CloseAccept

Spec == Init /\ [][Next]_vars

\* the worker takes its next step whenever it has one: every command it
\* waits for exits, and the thread is scheduled
FairSpec == Init /\ [][Next]_vars /\ WF_vars(Worker)

-----------------------------------------------------------------------------
(* Properties of a run *)

Checkpoints == <<0, 15, 25, 35, 60, 65, 85, 95, 100>>

IsPrefix(s, t) == Len(s) <= Len(t) /\ s = SubSeq(t, 1, Len(s))

Last(s) == s[Len(s)]

HasFinished == \E i \in 1..Len(events) : events[i].k = "finished"

\* finished(True, ...) has been emitted
HasSuccess == \E i \in 1..Len(events) : events[i].k = "finished" /\ events[i].n = 1

\* stage k is the first stage function that returned false
FirstFailed(k) ==
    /\ Len(stageResults) = k
    /\ stageResults[k].result = "False"

\* stage k is the stage function an exception left
Faulted(k) ==
    /\ Len(stageResults) = k
    /\ stageResults[k].result = "raised"

\* C1: the progress values emitted are a prefix of 0, 15, 25, 35, 60, 65, 85,
\* 95, 100; a run that has returned emitted the full list iff it ended with
\* finished(True), and the first k values if stage k was the first to fail
C1_ProgressPrefix ==
    LET values == ProgressValues
    IN  /\ IsPrefix(values, Checkpoints)
        /\ pc = "done" =>
              /\ values = Checkpoints <=> HasSuccess
              /\ \A k \in 1..7 : FirstFailed(k) => values = SubSeq(Checkpoints, 1, k)

C1_Witness ==
    /\ pc = "done"
    /\ FirstFailed(5)
    /\ ProgressValues = <<0, 15, 25, 35, 60>>

\* C2: finished is emitted at most once and nothing follows it: no signal,
\* no command, no file operation
C2_FinishedIsLast ==
    \A i \in 1..Len(events) : events[i].k = "finished" => i = Len(events)

C2_Witness ==
    /\ pc = "done"
    /\ closed
    /\ Faulted(6)
    /\ Last(events).k = "finished"

AllPassed ==
    [k \in 1..NumStages |-> [stage |-> k, result |-> IF k = 8 THEN "None" ELSE "True"]]

\* C4: finished(True, ...) is emitted only after the seven fallible stages
\* returned true, in order, and Cleanup was executed
C4_SuccessOnlyAfterAllStages ==
    HasSuccess =>
        /\ stageResults = AllPassed
        /\ \E i \in 1..Len(events) :
             /\ events[i].k = "status" /\ events[i].s = "Cleaning up..."
             /\ \E j \in (i + 1)..Len(events) :
                  events[j].k = "cmd" /\ events[j].s = "umount -R {self.mount_point}"

C4_Witness ==
    /\ HasSuccess
    /\ stageResults = AllPassed
    /\ config.root_password = ""

\* the status texts of the stage functions, in the order run calls them
StageStatus ==
    << "Preparing disk...", "Creating filesystems...", "Mounting filesystems...",
       "Installing base system...", "Generating fstab...", "Configuring system...",
       "Installing bootloader...", "Cleaning up..." >>

\* the status texts emitted so far, in order
StatusTexts == LET es == OfKind(events, "status") IN [i \in 1..Len(es) |-> es[i].s]

\* only the stage functions 1..k have been called, once each and in order
CalledUpTo(k) ==
    /\ Len(stageResults) = k
    /\ \A i \in 1..k : stageResults[i].stage = i
    /\ StatusTexts = <<"Starting installation...">> \o SubSeq(StageStatus, 1, k)

\* C5: when stage k is the first to return false, run emits finished(False, m)
\* with the message of stage k right after the stage's last log line, the
\* seven messages differ, and no later stage is entered nor stage k repeated
C5_FirstFailureEndsRun ==
    /\ \A j, k \in 1..7 : j # k => FailureMessage(j) # FailureMessage(k)
    /\ \A k \in 1..7 :
         FirstFailed(k) =>
            /\ pc \in {"ret", "done", "terminated"}
            /\ CalledUpTo(k)
            /\ pc = "done" =>
                 /\ Last(events) = Finished(FALSE, FailureMessage(k))
                 /\ events[Len(events) - 1].k = "log"
                 /\ events[Len(events) - 1].s \in
                      { "Disk {disk} does not exist",
                        "Command failed with return code {process.returncode}",
                        "Command execution error: {str(e)}" }

C5_Witness ==
    /\ pc = "done"
    /\ FirstFailed(3)
    /\ Last(events) = Finished(FALSE, "Filesystem mounting failed")

\* C6: when an exception leaves stage k, run emits one log line and then
\* finished(False, ...), calls no later stage, and the progress stays at the
\* checkpoint reached before stage k
C6_ExceptionEndsRun ==
    \A k \in 1..7 :
        Faulted(k) =>
            /\ pc \in {"except", "except_finished", "done", "terminated"}
            /\ CalledUpTo(k)
            /\ ProgressValues = SubSeq(Checkpoints, 1, k)
            /\ pc = "done" =>
                 /\ Last(events) = Finished(FALSE, ErrorMessage)
                 /\ events[Len(events) - 1] = Ev("log", ErrorMessage, <<>>, 0)
                 /\ Len(SelectSeq(events, LAMBDA e : e.s = ErrorMessage)) = 2

C6_Witness ==
    /\ pc = "done"
    /\ Faulted(6)
    /\ ProgressValues = <<0, 15, 25, 35, 60, 65>>

\* C7 as stated: no stage function is ever left by an exception
C7_NoStageRaises ==
    \A i \in 1..Len(stageResults) : stageResults[i].result # "raised"

\* C7, amended: whatever a command does (exit 0, nonzero exit, failure to
\* spawn or read), the stage function goes on or returns False; only a direct
\* directory or file operation makes an exception leave a stage function
C7_OnlyFileOperationsRaise ==
    /\ [][(pc = "stage" /\ pc' = "except") => Cur.op \in {"makedirs", "write"}]_vars
    /\ [](\A i \in 1..Len(stageResults) :
            /\ stageResults[i].stage <= 7 =>
                 stageResults[i].result \in {"True", "False", "raised"}
            /\ stageResults[i].result = "raised" =>
                 stageResults[i].stage \in {3, 6, 7})

\* a command could not be spawned in a stage that later returned false, and
\* an I/O error left a later stage
C7_Witness ==
    /\ pc = "except"
    /\ stage = 7
    /\ \E i \in 1..Len(events) : events[i].s = "Command execution error: {str(e)}"

\* C8: if the disk does not exist the run ends with finished(False, "Disk
\* preparation failed"), invokes no command, performs no directory or file
\* operation and its progress never passes 0
C8_MissingDisk ==
    ~diskExists =>
        /\ \A i \in 1..Len(events) : events[i].k \notin {"cmd", "makedirs", "write"}
        /\ IsPrefix(ProgressValues, <<0>>)
        /\ Len(stageResults) <= 1
        /\ pc = "done" => Last(events) = Finished(FALSE, "Disk preparation failed")

C8_Witness ==
    /\ ~diskExists
    /\ pc = "done"
    /\ HasFinished

-----------------------------------------------------------------------------
(* The partition naming rule, for every disk path up to MaxDiskLen *)

DiskAlphabet == {"n", "v", "m", "e", "c", "a"}

DiskInputs == SeqsUpTo(DiskAlphabet, MaxDiskLen) \cup {DevSda, DevNvme}

BaseConfig ==
    [ disk |-> DevSda, hostname |-> "kuns-os", username |-> "kunsos", password |-> "pw",
      root_password |-> "rootpw", keymap |-> "us", timezone |-> "UTC",
      locale |-> "en_US.UTF-8", packages |-> <<>> ]

\* the worker before run, with nothing emitted and no attribute stored
Fresh ==
    /\ diskExists = TRUE
    /\ stage = 0
    /\ ip = 0
    /\ ret = "None"
    /\ events = <<>>
    /\ stageResults = <<>>
    /\ efi_partition = Unset
    /\ root_partition = Unset
    /\ boot_part = Unset
    /\ efi_success = FALSE
    /\ bios_success = FALSE
    /\ efi_outcome = "none"
    /\ bios_outcome = "none"
    /\ closed = FALSE
    /\ child = 0
    /\ table = "none"
    /\ mounts = {}
    /\ packages_list = <<>>

\* the main window as constructed, with the first disk of the table checked
WindowConstructed ==
    /\ WindowAt(0)
    /\ selected_disk = DevSda
    /\ fields = DefaultFields

InitNaming ==
    /\ config \in {[BaseConfig EXCEPT !.disk = d] : d \in DiskInputs}
    /\ pc = "naming"
    /\ checks = DefaultChecks
    /\ call = NoCall
    /\ WindowConstructed
    /\ Fresh

\* _create_filesystems when both format commands exit with status 0: the
\* commands it runs and the attributes it stores
NamingFilesystems ==
    /\ pc = "naming"
    /\ efi_partition = Unset
    /\ LET statements == create_filesystems(config)
           cmds == SelectSeq(statements, LAMBDA o : o.op = "cmd")
           store == SelectSeq(statements, LAMBDA o : o.op = "store")[1]
       IN  /\ events' = events \o [i \in 1..Len(cmds) |-> Ev("cmd", cmds[i].s, cmds[i].a, 1)]
           /\ efi_partition' = store.a[1]
           /\ root_partition' = store.a[2]
    /\ UNCHANGED <<config, diskExists, pc, stage, ip, ret, stageResults, boot_part,
                   efi_success, bios_success, efi_outcome, bios_outcome, closed, widget, call,
                   gui, child, table, mounts>>

\* _install_bootloader: the boot partition it derives
NamingBootloader ==
    /\ pc = "naming"
    /\ efi_partition # Unset
    /\ boot_part = Unset
    /\ boot_part' = SelectSeq(install_bootloader(config), LAMBDA o : o.op = "boot_part")[1].a[1]
    /\ UNCHANGED <<config, diskExists, pc, stage, ip, ret, events, stageResults,
                   efi_partition, root_partition, efi_success, bios_success,
                   efi_outcome, bios_outcome, closed, widget,
                   call, gui, child, table, mounts>>

NextNaming == NamingFilesystems \/ NamingBootloader

SpecNaming == InitNaming /\ [][NextNaming]_vars

\* the disk name contains "nvme" or "mmc"
HasMarker(d) ==
    \/ \E i \in 1..(Len(d) - 3) :
         d[i] = "n" /\ d[i + 1] = "v" /\ d[i + 2] = "m" /\ d[i + 3] = "e"
    \/ \E i \in 1..(Len(d) - 2) :
         d[i] = "m" /\ d[i + 1] = "m" /\ d[i + 2] = "c"

\* the argument of the command with text s
ArgumentOf(s) == SelectSeq(events, LAMBDA e : e.k = "cmd" /\ e.s = s)[1].a[1]

\* C9: Filesystems formats and stores disk+"p1" and disk+"p2" when the disk
\* name contains "nvme" or "mmc" and disk+"1" and disk+"2" otherwise, and the
\* boot partition Bootloader derives is the EFI partition Filesystems stored
C9_PartitionNaming ==
    LET d == config.disk
        efi == IF HasMarker(d) THEN d \o <<"p", "1">> ELSE d \o <<"1">>
        root == IF HasMarker(d) THEN d \o <<"p", "2">> ELSE d \o <<"2">>
    IN  /\ efi_partition # Unset =>
              /\ efi_partition = efi
              /\ root_partition = root
              /\ ArgumentOf("mkfs.fat -F32 {efi_part}") = efi
              /\ ArgumentOf("mkfs.ext4 -F {root_part}") = root
        /\ (efi_partition # Unset /\ d = DevSda) =>
              /\ efi_partition = <<"/", "d", "e", "v", "/", "s", "d", "a", "1">>
              /\ root_partition = <<"/", "d", "e", "v", "/", "s", "d", "a", "2">>
        /\ (efi_partition # Unset /\ d = DevNvme) =>
              /\ efi_partition = DevNvme \o <<"p", "1">>
              /\ root_partition = DevNvme \o <<"p", "2">>
        /\ boot_part # Unset => boot_part = efi_partition

C9_Witness ==
    /\ config.disk = <<"a", "m", "m", "c">>
    /\ efi_partition = <<"a", "m", "m", "c", "p", "1">>
    /\ boot_part = efi_partition

-----------------------------------------------------------------------------
(* The package list, for every state of the package page *)

InitPackages ==
    /\ config = BaseConfig
    /\ pc = "packages"
    /\ checks \in AllChecks
    /\ call = NoCall
    /\ WindowConstructed
    /\ Fresh

\* start_install: packages = self.package_page.get_packages(), stored as
\* config["packages"]
PackagesSelected ==
    /\ pc = "packages"
    /\ config' = [config EXCEPT !.packages = get_packages(checks)]
    /\ pc' = "packages_selected"
    /\ UNCHANGED <<diskExists, stage, ip, ret, events, stageResults, attrs, closed,
                   widget, call, gui, child, table, mounts>>

\* a wrong _get_packages_list: the defaults are added to config['packages']
\* in place
GetPackagesListCallInPlace ==
    /\ pc \in {"packages", "packages_selected"}
    /\ packages_list' \in get_packages_list(config.packages)
    /\ config' = [config EXCEPT !.packages = packages_list']
    /\ pc' = "packages_listed"
    /\ UNCHANGED <<diskExists, stage, ip, ret, events, stageResults,
                   attrs, closed, checks, call, gui, child, table, mounts>>

\* _install_base_system: packages = self._get_packages_list(), for the
\* packages of the page or for a configuration without any
GetPackagesListCall ==
    /\ pc \in {"packages", "packages_selected"}
    /\ packages_list' \in get_packages_list(config.packages)
    /\ pc' = "packages_listed"
    /\ UNCHANGED <<config, diskExists, stage, ip, ret, events, stageResults, attrs, closed,
                   checks, call, gui, child, table, mounts>>

NextPackages == PackagesSelected \/ GetPackagesListCall

SpecPackages == InitPackages /\ [][NextPackages]_vars

\* C10: the list _get_packages_list returns holds every package of the base
\* list, of the desktop list and of the user's list, nothing else, and no
\* package twice
C10_PackageUnion ==
    pc = "packages_listed" =>
        /\ SeqToSet(packages_list) =
              SeqToSet(base_packages) \cup SeqToSet(kuns_packages)
                 \cup SeqToSet(config.packages)
        /\ \A i, j \in 1..Len(packages_list) :
              i # j => packages_list[i] # packages_list[j]

\* the user's list holds "vim" twice and "base-devel", which is a default
C10_Witness ==
    /\ pc = "packages_listed"
    /\ checks.full /\ checks.vim_neovim /\ checks.git
    /\ Len(SelectSeq(config.packages, LAMBDA x : x = "vim")) = 2
    /\ Len(SelectSeq(packages_list, LAMBDA x : x = "vim")) = 1
    /\ Len(SelectSeq(packages_list, LAMBDA x : x = "base-devel")) = 1

-----------------------------------------------------------------------------
(* Properties of the bootloader stage *)

\* command texts of _install_bootloader
MkdirBootEfi == "arch-chroot {self.mount_point} mkdir -p /boot/EFI"
GrubInstallEfi == "arch-chroot {self.mount_point} grub-install --target=x86_64-efi --efi-directory=/boot --bootloader-id=KunsOS --no-nvram --removable"
GrubInstallBios == "arch-chroot {self.mount_point} grub-install --target=i386-pc {disk}"
GrubMkconfig == "arch-chroot {self.mount_point} grub-mkconfig -o /boot/grub/grub.cfg"

\* the texts of the commands invoked so far, in order
CommandTexts == LET es == OfKind(events, "cmd") IN [i \in 1..Len(es) |-> es[i].s]

\* a command with text s has been invoked
Invoked(s) == \E i \in 1..Len(events) : events[i].k = "cmd" /\ events[i].s = s

\* the log line s has been emitted
Logged(s) == \E i \in 1..Len(events) : events[i].k = "log" /\ events[i].s = s

\* _install_bootloader has ended: it returned or an exception left it
BootloaderEnded == Len(stageResults) >= 7

\* C11: however the two grub-install commands go (each exits 0, exits
\* nonzero or cannot be spawned), the other one and grub-mkconfig are still
\* invoked, and the stage function returns False only right after one of its
\* two strict commands (mkdir -p /boot/EFI, grub-mkconfig) failed
C11_InstallFailuresNeverFailStage ==
    /\ (BootloaderEnded /\ efi_outcome # "none") =>
           /\ bios_outcome # "none"
           /\ Invoked(GrubInstallBios)
           /\ Invoked(GrubMkconfig)
    /\ FirstFailed(7) => Last(CommandTexts) \in {MkdirBootEfi, GrubMkconfig}
    /\ (FirstFailed(7) /\ pc = "ret") =>
           Last(events).s \in { "Command failed with return code {process.returncode}",
                                "Command execution error: {str(e)}" }
    /\ (FirstFailed(7) /\ Last(CommandTexts) = MkdirBootEfi) => efi_outcome = "none"

C11_Witness ==
    /\ Len(stageResults) = 7
    /\ stageResults[7].result = "True"
    /\ efi_outcome = "nonzero"
    /\ bios_outcome = "exception"
    /\ Invoked(GrubMkconfig)

\* the grub-install process of a path ran and exited with status 0
InstallSucceeded(outcome) == outcome = "exit0"

\* C12: once the outcome of the two installs has been reported, the WARNING
\* line has been logged if both installs failed (nonzero exit or no spawn),
\* and the "installation successful" line of a path has been logged only if
\* the install of that path succeeded
C12_WarningWhenBothFail ==
    (BootloaderEnded /\ bios_outcome # "none") =>
        /\ (~InstallSucceeded(efi_outcome) /\ ~InstallSucceeded(bios_outcome)) =>
               Logged("WARNING: Both EFI and BIOS installation failed!")
        /\ Logged("EFI GRUB installation successful") => InstallSucceeded(efi_outcome)
        /\ Logged("BIOS GRUB installation successful") => InstallSucceeded(bios_outcome)

-----------------------------------------------------------------------------
(* Properties of the configuration stage *)

\* command texts of _configure_system
RootChpasswd == "arch-chroot {self.mount_point} bash -c 'echo \"root:{root_password}\" | chpasswd'"
Useradd == "arch-chroot {self.mount_point} useradd -m -G wheel -s /bin/bash {username}"
UserChpasswd == "arch-chroot {self.mount_point} bash -c 'echo \"{username}:{user_password}\" | chpasswd'"
SudoersSed == "arch-chroot {self.mount_point} sed -i 's/^# %wheel ALL=(ALL:ALL) ALL/%wheel ALL=(ALL:ALL) ALL/' /etc/sudoers"
EnableNetworkManager == "arch-chroot {self.mount_point} systemctl enable NetworkManager"
EnableLightdm == "arch-chroot {self.mount_point} systemctl enable lightdm"

\* the lines with which _run_command reports a failed command
FailureLines == { "Command failed with return code {process.returncode}",
                  "Command execution error: {str(e)}" }

\* the positions in events where the command with text s was invoked
Invocations(s) == {i \in 1..Len(events) : events[i].k = "cmd" /\ events[i].s = s}

\* the invocation at position i was reported as failed
ReportedFailed(i) ==
    /\ i < Len(events)
    /\ events[i + 1].k = "log"
    /\ events[i + 1].s \in FailureLines

\* no strict command has failed, no file operation has raised and the disk
\* was there
NothingStrictFailed ==
    /\ diskExists
    /\ \A i \in 1..Len(stageResults) : stageResults[i].result # "raised"
    /\ \A i \in 1..Len(events) :
           (events[i].k = "cmd" /\ events[i].n = 1) => ~ReportedFailed(i)

\* _configure_system returned True
ConfiguredOk == Len(stageResults) >= 6 /\ stageResults[6].result = "True"

\* C13: with an empty root_password no root chpasswd command is issued and a
\* run in which nothing else fails ends with finished(True); with a non-empty
\* one the command is issued at most once, once when Configure passes, it
\* carries the password, and its failure makes Configure return False
C13_RootPassword ==
    /\ config.root_password = "" =>
           /\ Invocations(RootChpasswd) = {}
           /\ (pc = "done" /\ NothingStrictFailed) => HasSuccess
    /\ config.root_password # "" =>
           /\ Cardinality(Invocations(RootChpasswd)) <= 1
           /\ ConfiguredOk => Cardinality(Invocations(RootChpasswd)) = 1
           /\ \A i \in Invocations(RootChpasswd) :
                  /\ events[i].a = <<config.root_password>>
                  /\ ReportedFailed(i) => FirstFailed(6)

C13_Witness ==
    /\ config.root_password # ""
    /\ \E i \in Invocations(RootChpasswd) : ReportedFailed(i)
    /\ pc = "done"
    /\ Last(events) = Finished(FALSE, FailureMessage(6))

\* C13, the empty case: a run without a root password that succeeded
C13_WitnessEmpty ==
    /\ config.root_password = ""
    /\ HasSuccess

\* C14: useradd and the chpasswd of the user are issued only when username
\* and password are both non-empty; when Configure passes they have been
\* issued exactly once each in that case and not at all otherwise, and the
\* sudo and service commands have been issued in both cases; useradd comes
\* before the chpasswd, and a failed useradd ends the stage without it
C14_UserCommands ==
    LET both == config.username # "" /\ config.password # ""
        adds == Invocations(Useradd)
        sets == Invocations(UserChpasswd)
    IN  /\ ~both => adds = {} /\ sets = {}
        /\ Cardinality(adds) <= 1 /\ Cardinality(sets) <= 1
        /\ ConfiguredOk =>
               /\ both => Cardinality(adds) = 1 /\ Cardinality(sets) = 1
               /\ Invocations(SudoersSed) # {}
               /\ Invocations(EnableNetworkManager) # {}
               /\ Invocations(EnableLightdm) # {}
        /\ \A j \in sets : \E i \in adds : i < j /\ ~ReportedFailed(i)
        /\ \A i \in adds : ReportedFailed(i) => sets = {} /\ FirstFailed(6)
        /\ \A i \in adds : events[i].a = <<config.username>>
        /\ \A j \in sets : events[j].a = <<config.username, config.password>>

C14_Witness ==
    /\ config.username # "" /\ config.password # ""
    /\ \E i \in Invocations(Useradd) : ReportedFailed(i)
    /\ Invocations(UserChpasswd) = {}
    /\ FirstFailed(6)

\* C14, an empty field: Configure passed without the two user commands
C14_WitnessEmpty ==
    /\ config.username # "" /\ config.password = ""
    /\ ConfiguredOk
    /\ Invocations(Useradd) = {}
    /\ Invocations(SudoersSed) # {}

-----------------------------------------------------------------------------
(* Specification of one call of _run_command *)

\* the characters a child process prints
OutputAlphabet == {"a", " ", "\n"}

\* the commands the call is made with
RunnerCommands == {"partprobe", "arch-chroot {self.mount_point} locale-gen"}

\* _run_command is about to be called with cmd and check; the child will
\* print call.output and end as call.outcome says
InitRunner ==
    /\ call \in [ s : RunnerCommands, a : {<<>>}, check : BOOLEAN, outcome : Outcomes,
                   output : SeqsUpTo(OutputAlphabet, MaxOutputLen) ]
    /\ config = BaseConfig
    /\ pc = "runner"
    /\ checks = DefaultChecks
    /\ WindowConstructed
    /\ Fresh

\* the call of _run_command, from its first statement to its return
RunCommandCall ==
    /\ pc = "runner"
    /\ events' = events \o RunCommandEvents(call.s, call.a, call.check, call.outcome,
                                            call.output)
    /\ ret' = IF RunCommandResult(call.check, call.outcome) THEN "True" ELSE "False"
    /\ pc' = "returned"
    /\ UNCHANGED <<config, diskExists, stage, ip, stageResults, attrs, closed, widget, call,
                   gui, child, table, mounts>>

NextRunner == RunCommandCall

SpecRunner == InitRunner /\ [][NextRunner]_vars

\* the log line that reports a nonzero return code
ReturnCodeLine == Ev("log", "Command failed with return code {process.returncode}", <<>>, 0)

\* the log line that reports an exception of the runner
ExecutionErrorLine == Ev("log", "Command execution error: {str(e)}", <<>>, 0)

\* how often event e has been emitted
Times(e) == Cardinality({i \in 1..Len(events) : events[i] = e})

\* C15: _run_command returns True when the child exits with status 0, True
\* when check is false whatever the exit status, and False otherwise; when
\* it returns False for the exit status, the line reporting the return code
\* is the last thing it emitted
C15_RunnerVerdict ==
    pc = "returned" =>
        /\ call.outcome = "exit0" => ret = "True"
        /\ (call.outcome \in {"exit0", "nonzero"} /\ ~call.check) => ret = "True"
        /\ ~(call.outcome = "exit0" \/ (call.outcome = "nonzero" /\ ~call.check)) =>
               ret = "False"
        /\ (call.outcome = "nonzero" /\ call.check) =>
               /\ Last(events) = ReturnCodeLine
               /\ Times(ReturnCodeLine) = 1

C15_Witness ==
    /\ pc = "returned"
    /\ call.outcome = "nonzero"
    /\ call.check
    /\ ret = "False"
    /\ Last(events) = ReturnCodeLine

\* C16: when Popen or the reading of the output raises, _run_command
\* returns False to its caller, with check true and with check false, and
\* the last thing it emitted is the one line that describes the error
C16_RunnerCatches ==
    (pc # "runner" /\ call.outcome = "exception") =>
        /\ pc = "returned"
        /\ ret = "False"
        /\ Last(events) = ExecutionErrorLine
        /\ Times(ExecutionErrorLine) = 1
        /\ Times(ReturnCodeLine) = 0

C16_Witness ==
    /\ pc = "returned"
    /\ call.outcome = "exception"
    /\ ~call.check
    /\ ret = "False"
    /\ Last(events) = ExecutionErrorLine

\* C18 as stated: whenever a command called with check false exits with a
\* nonzero status, the line reporting the return code is emitted
C18_BestEffortFailureLogged ==
    (pc = "returned" /\ ~call.check /\ call.outcome = "nonzero") =>
        Times(ReturnCodeLine) >= 1

\* C18, amended: the return code is reported exactly when check is true and
\* the exit status is nonzero; with check false a nonzero exit leaves no line
\* of the runner and True is returned; an exception of the runner is
\* reported with check true and with check false
C18_OnlyCheckedExitReported ==
    pc = "returned" =>
        /\ Times(ReturnCodeLine) = IF call.check /\ call.outcome = "nonzero" THEN 1 ELSE 0
        /\ Times(ExecutionErrorLine) = IF call.outcome = "exception" THEN 1 ELSE 0
        /\ (~call.check /\ call.outcome = "nonzero") =>
               /\ ret = "True"
               /\ Len(events) = 2 + Len(Forwarded(call.output))

C18_Witness ==
    /\ pc = "returned"
    /\ ~call.check
    /\ call.outcome = "nonzero"
    /\ call.output = <<>>
    /\ Len(events) = 2
    /\ ret = "True"

\* the lines of the text the child printed, without their newline
LinesWritten ==
    LET lines == ReadLines(call.output)
    IN  [i \in 1..Len(lines) |->
            IF Last(lines[i]) = "\n" THEN SubSeq(lines[i], 1, Len(lines[i]) - 1)
            ELSE lines[i]]

\* the texts of the log lines emitted for the output of the child: the log
\* lines after the invocation that are not the closing line of the runner
LinesLogged ==
    LET es == SelectSeq(SubSeq(events, 3, Len(events)),
                        LAMBDA e : e.k = "log" /\ e.s = "{line}")
    IN  [i \in 1..Len(es) |-> es[i].a[1]]

\* line consists of text with whitespace before and after it
Surrounds(line, text) ==
    \E i \in 0..Len(line), j \in 0..Len(line) :
        /\ i <= j
        /\ SubSeq(line, i + 1, j) = text
        /\ \A k \in (1..i) \cup ((j + 1)..Len(line)) : line[k] \in Whitespace

-----------------------------------------------------------------------------
(* Properties of the best-effort commands *)

\* the commands of _prepare_disk and _install_bootloader called with
\* check=False whose result is not used
BestEffortTexts ==
    { "umount -R {self.mount_point}", "partprobe", "parted {disk} set 1 boot on",
      "parted {disk} set 1 legacy_boot on",
      "arch-chroot {self.mount_point} mkdir -p /boot/EFI/BOOT",
      "arch-chroot {self.mount_point} cp /boot/EFI/KunsOS/grubx64.efi /boot/EFI/BOOT/BOOTX64.EFI" }

\* the worker is at a statement that calls one of the best-effort commands
AtBestEffort ==
    /\ InStage
    /\ Cur.op = "cmd"
    /\ Cur.s \in BestEffortTexts

\* C17: whatever the outcome of a best-effort command (exit status 0,
\* nonzero exit status, no spawn), the stage function waits for the child it
\* spawned and then goes on with its next statement, and nothing but the
\* event trace changes; so a stage function
\* returns False only after a strict command or the disk test, and a run
\* in which no strict step failed ends with finished(True)
C17_BestEffortNeverAborts ==
    /\ [][(AtBestEffort /\ pc' # "terminated") =>
              /\ pc' = "stage"
              /\ stage' = stage
              /\ ip' = IF child' = 1 THEN ip ELSE ip + 1
              /\ ret' = ret
              /\ stageResults' = stageResults
              /\ attrs' = attrs]_vars
    /\ []((pc = "ret" /\ ret = "False") =>
              \/ ~diskExists
              \/ Last(OfKind(events, "cmd")).n = 1)
    /\ []((pc = "done" /\ NothingStrictFailed) => HasSuccess)

\* a successful run in which none of the best-effort commands could be spawned
C17_Witness ==
    /\ HasSuccess
    /\ \A s \in BestEffortTexts : Invocations(s) # {}
    /\ \A s \in BestEffortTexts : \A i \in Invocations(s) : ReportedFailed(i)

-----------------------------------------------------------------------------
(* The wizard: KunsInstaller *)

\* the state of the worker thread
thread == <<pc, stage, ip, ret, events, stageResults, attrs>>

\* a wrong update_page: the install button stays visible on the
\* installation page
UpdatePageInstallShown(page) ==
    /\ current_page' = page
    /\ prev_enabled' = IF page = 4 THEN FALSE ELSE page > 0
    /\ next_visible' = (page < 3)
    /\ install_visible' = (page \in {3, 4})
    /\ prev_visible' = IF page = 5 THEN FALSE ELSE prev_visible

\* self.current_page = page; self.update_page()
UpdatePage(page) ==
    /\ current_page' = page
    /\ prev_enabled' = IF page = 4 THEN FALSE ELSE page > 0
    /\ next_visible' = IF page = 5 THEN FALSE ELSE page < 3
    /\ install_visible' = IF page = 5 THEN FALSE ELSE page = 3
    /\ prev_visible' = IF page = 5 THEN FALSE ELSE prev_visible

\* next_page, the slot of next_btn
NextPage ==
    /\ ~closed
    /\ next_visible
    /\ IF current_page = 1 /\ selected_disk = NoDisk
       THEN UNCHANGED <<current_page, prev_enabled, prev_visible, next_visible,
                        install_visible>>
       ELSE IF current_page = 2 /\ ~validate(fields)
       THEN UNCHANGED <<current_page, prev_enabled, prev_visible, next_visible,
                        install_visible>>
       ELSE IF current_page < 3
       THEN UpdatePage(current_page + 1)
       ELSE UNCHANGED <<current_page, prev_enabled, prev_visible, next_visible,
                        install_visible>>
    /\ UNCHANGED <<config, diskExists, thread, closed, widget, call, selected_disk, fields,
                   orphans, child, table, mounts>>

\* prev_page, the slot of prev_btn
PrevPage ==
    /\ ~closed
    /\ prev_visible
    /\ prev_enabled
    /\ IF current_page > 0
       THEN UpdatePage(current_page - 1)
       ELSE UNCHANGED <<current_page, prev_enabled, prev_visible, next_visible,
                        install_visible>>
    /\ UNCHANGED <<config, diskExists, thread, closed, widget, call, selected_disk, fields,
                   orphans, child, table, mounts>>

\* refresh_disks, the slot of the refresh button of the disk page: the first
\* disk lsblk lists is checked, or no disk is found
RefreshDisks ==
    /\ ~closed
    /\ current_page = 1
    /\ selected_disk' \in Disks \cup {NoDisk}
    /\ UNCHANGED <<config, diskExists, thread, closed, widget, call, current_page,
                   prev_enabled, prev_visible, next_visible, install_visible, fields,
                   orphans, child, table, mounts>>

\* the user checks the radio button of another disk of the table
SelectDisk ==
    /\ ~closed
    /\ current_page = 1
    /\ selected_disk # NoDisk
    /\ selected_disk' \in Disks \ {selected_disk}
    /\ UNCHANGED <<config, diskExists, thread, closed, widget, call, current_page,
                   prev_enabled, prev_visible, next_visible, install_visible, fields,
                   orphans, child, table, mounts>>

\* the user edits a line edit of the user page
EditField ==
    /\ ~closed
    /\ current_page = 2
    /\ \E name \in DOMAIN fields :
          \E f \in FieldInputs :
              /\ f[name] # fields[name]
              /\ fields' = [fields EXCEPT ![name] = f[name]]
    /\ UNCHANGED <<config, diskExists, thread, closed, widget, call, current_page,
                   prev_enabled, prev_visible, next_visible, install_visible, selected_disk,
                   orphans, child, table, mounts>>

\* start_install, the slot of install_btn: the disk test, the confirmation
\* dialog, then the thread is constructed, connected and started
StartInstall ==
    /\ ~closed
    /\ install_visible
    /\ \E reply \in {"Yes", "No"} :
          IF selected_disk = NoDisk \/ reply # "Yes"
          THEN UNCHANGED <<config, thread, gui>>
          ELSE /\ config' = BuildConfig(selected_disk, fields, get_packages(checks))
               /\ UpdatePage(4)
               /\ orphans' = orphans + (IF IsRunning THEN 1 ELSE 0)
               /\ pc' = "start"
               /\ stage' = 0
               /\ ip' = 0
               /\ ret' = "None"
               /\ events' = <<>>
               /\ stageResults' = <<>>
               /\ efi_partition' = Unset
               /\ root_partition' = Unset
               /\ boot_part' = Unset
               /\ efi_success' = FALSE
               /\ bios_success' = FALSE
               /\ efi_outcome' = "none"
               /\ bios_outcome' = "none"
               /\ UNCHANGED <<selected_disk, fields>>
    /\ UNCHANGED <<diskExists, closed, widget, call, child, table, mounts>>

\* a wrong install_finished: after a failure the window stays on the
\* installation page
InstallFinishedStays ==
    /\ ~closed
    /\ pc = "done"
    /\ HasFinished
    /\ IF Last(events).n = 1
       THEN UpdatePage(5)
       ELSE UpdatePage(4)
    /\ pc' = "delivered"
    /\ stage' = 0
    /\ ip' = 0
    /\ ret' = "None"
    /\ events' = <<>>
    /\ stageResults' = <<>>
    /\ efi_partition' = Unset
    /\ root_partition' = Unset
    /\ boot_part' = Unset
    /\ efi_success' = FALSE
    /\ bios_success' = FALSE
    /\ efi_outcome' = "none"
    /\ bios_outcome' = "none"
    /\ UNCHANGED <<config, diskExists, closed, widget, call, selected_disk, fields, orphans, child,
                   table, mounts>>

\* install_finished, the slot of the finished signal; the thread has ended
\* and nothing reads its attributes any more, so its trace is dropped here
InstallFinished ==
    /\ ~closed
    /\ pc = "done"
    /\ HasFinished
    /\ IF Last(events).n = 1
       THEN UpdatePage(5)
       ELSE UpdatePage(3)
    /\ pc' = "delivered"
    /\ stage' = 0
    /\ ip' = 0
    /\ ret' = "None"
    /\ events' = <<>>
    /\ stageResults' = <<>>
    /\ efi_partition' = Unset
    /\ root_partition' = Unset
    /\ boot_part' = Unset
    /\ efi_success' = FALSE
    /\ bios_success' = FALSE
    /\ efi_outcome' = "none"
    /\ bios_outcome' = "none"
    /\ UNCHANGED <<config, diskExists, closed, widget, call, selected_disk, fields, orphans, child,
                   table, mounts>>

\* KunsInstaller.__init__: the window as constructed, no thread yet
InitWizard ==
    /\ config = BuildConfig(NoDisk, DefaultFields, <<>>)
    /\ diskExists \in BOOLEAN
    /\ pc = "idle"
    /\ checks = DefaultChecks
    /\ call = NoCall
    /\ WindowAt(0)
    /\ selected_disk \in {DevSda, NoDisk}
    /\ fields = DefaultFields
    /\ stage = 0
    /\ ip = 0
    /\ ret = "None"
    /\ events = <<>>
    /\ stageResults = <<>>
    /\ efi_partition = Unset
    /\ root_partition = Unset
    /\ boot_part = Unset
    /\ efi_success = FALSE
    /\ bios_success = FALSE
    /\ efi_outcome = "none"
    /\ bios_outcome = "none"
    /\ closed = FALSE
    /\ child = 0
    /\ table \in Tables
    /\ mounts = {}
    /\ packages_list = <<>>

NextWizard ==
    \/ NextPage
    \/ PrevPage
    \/ RefreshDisks
    \/ SelectDisk
    \/ EditField
    \/ StartInstall
    \/ InstallFinished
    \/ Worker
    \/ CloseTerminate
    \/ CloseAccept

SpecWizard == InitWizard /\ [][NextWizard]_vars

\* the install threads that are running
ActiveThreads == orphans + (IF IsRunning THEN 1 ELSE 0)

\* C20: a thread is started only by a step taken on page 3 while no thread
\* runs, that step enters page 4, the wizard is on page 4 as long as the
\* thread runs and leaves it only when its finished event is handled, and
\* at no time more than one install thread is running
C20_OneRunAtATime ==
    /\ [][(pc' = "start" /\ pc # "start") =>
              /\ current_page = 3
              /\ current_page' = 4
              /\ ~IsRunning]_vars
    /\ [][(current_page = 4 /\ current_page' # 4) =>
              /\ pc = "done"
              /\ HasFinished
              /\ pc' = "delivered"]_vars
    /\ [](IsRunning => current_page = 4)
    /\ [](ActiveThreads <= 1)

\* a thread is running on the installation page, where the install button
\* cannot be clicked
C20_Witness ==
    /\ IsRunning
    /\ stage = 7
    /\ current_page = 4
    /\ ~install_visible
    /\ ~prev_enabled
    /\ ActiveThreads = 1

-----------------------------------------------------------------------------
(* Properties of the configuration a run is given *)

\* the text holds a character that is not whitespace
HasText(s) == \E i \in 1..Len(s) : s[i] \notin Whitespace

\* a step that constructs and starts an install thread
ThreadStarts == pc' = "start" /\ pc # "start"

\* C21: whenever a thread is started, a disk is checked in the disk table,
\* hostname and username hold more than whitespace, the two passwords are
\* not empty and the user password equals its confirmation; and the
\* configuration a thread was constructed with has a disk and no empty
\* hostname, username, password or root password
C21_ValidatedConfiguration ==
    /\ [][ThreadStarts =>
              /\ selected_disk \in Disks
              /\ HasText(fields.hostname)
              /\ HasText(fields.username)
              /\ fields.password # <<>>
              /\ fields.root_password # <<>>
              /\ fields.password = fields.confirm
              /\ config'.disk = selected_disk]_vars
    /\ [](pc # "idle" =>
              /\ config.disk \in Disks
              /\ config.hostname \notin {"", " "}
              /\ config.username \notin {"", " "}
              /\ config.password # ""
              /\ config.root_password # "")

\* a thread started for the second disk after the passwords were typed
C21_Witness ==
    /\ pc = "start"
    /\ current_page = 4
    /\ config.disk = DevNvme
    /\ config.password = "pw"
    /\ fields.confirm = <<"p", "w">>

-----------------------------------------------------------------------------
(* Properties of the mount stage *)

MountRoot == "mount {self.root_partition} {self.mount_point}"

MountEfi == "mount {self.efi_partition} {self.boot_mount}"

\* the positions in events where the boot mount point is announced or
\* created, or the EFI partition is announced or mounted
BootMountSteps ==
    {j \in 1..Len(events) :
        \/ events[j].k = "log" /\ events[j].s \in {"Creating boot mount point...",
                                                    "Mounting EFI partition..."}
        \/ events[j].k = "makedirs" /\ events[j].s = "{self.boot_mount}"
        \/ events[j].k = "cmd" /\ events[j].s = MountEfi}

\* C23: the boot directory is created and the EFI partition is mounted only
\* after a root mount command that did not fail; when the root mount command
\* failed, the boot directory is neither announced nor created and the EFI
\* mount is not invoked, and the stage function returned False
C23_MountNesting ==
    /\ \A j \in BootMountSteps :
           \E i \in Invocations(MountRoot) : i < j /\ ~ReportedFailed(i)
    /\ \A i \in Invocations(MountRoot) :
           ReportedFailed(i) =>
               /\ BootMountSteps = {}
               /\ pc \in {"ret", "terminated"} \/ FirstFailed(3)
    /\ Cardinality(Invocations(MountRoot)) <= 1

\* both partitions were mounted, the boot directory created in between
C23_Witness ==
    \E i \in Invocations(MountRoot), j, k \in BootMountSteps :
        /\ i < j /\ j < k
        /\ events[j].k = "makedirs"
        /\ events[k].k = "cmd"
        /\ ~ReportedFailed(k)

\* the root mount command failed and the run has ended
C23_WitnessRootFailed ==
    /\ pc = "done"
    /\ \E i \in Invocations(MountRoot) : ReportedFailed(i)

-----------------------------------------------------------------------------
(* Properties of the order of the stages *)

\* the stage functions entered so far, by the status each emits first
StagesEntered == SelectSeq(StatusTexts, LAMBDA s : s \in SeqToSet(StageStatus))

\* the texts of the commands stage function k can invoke
CommandsOf(k) ==
    LET statements == Statements[config][k]
    IN  {statements[i].s : i \in {j \in 1..Len(statements) : statements[j].op = "cmd"}}

\* the step invokes a command
NewCommand == Len(OfKind(events', "cmd")) > Len(OfKind(events, "cmd"))

-----------------------------------------------------------------------------
(* Properties of the cleanup stage *)

UmountTarget == "umount -R {self.mount_point}"

\* the run has emitted finished(False, ...)
HasFailure == \E i \in 1..Len(events) : events[i].k = "finished" /\ events[i].n = 0

\* the positions in events of the mount commands that were not reported failed
Mounted ==
    {i \in Invocations(MountRoot) \cup Invocations(MountEfi) : ~ReportedFailed(i)}

\* C25: in a run that has emitted finished(False, ...), _cleanup_installation
\* was not entered and no unmount command was invoked after a mount command:
\* the only unmount in the trace is the one with which DiskPrep begins
C25_NoCleanupOnFailure ==
    HasFailure =>
        /\ "Cleaning up..." \notin SeqToSet(StatusTexts)
        /\ \A r \in 1..Len(stageResults) : stageResults[r].stage # 8
        /\ Cardinality(Invocations(UmountTarget)) <= 1
        /\ \A u \in Invocations(UmountTarget) :
               /\ \A m \in Mounted : u < m
               /\ \A j \in 1..(u - 1) : events[j].k # "cmd"

\* Configure has failed with both partitions mounted, and the failure was
\* emitted
C25_Witness ==
    /\ HasFailure
    /\ FirstFailed(6)
    /\ Mounted \cap Invocations(MountRoot) # {}
    /\ Mounted \cap Invocations(MountEfi) # {}

-----------------------------------------------------------------------------
(* Properties of the disk preparation stage *)

Mklabel == "parted -s {disk} mklabel gpt"

MkpartEfi == "parted -s {disk} mkpart primary fat32 1MiB 513MiB"

SetEsp == "parted -s {disk} set 1 esp on"

MkpartRoot == "parted -s {disk} mkpart primary ext4 513MiB 100%"

Partprobe == "partprobe"

MkfsFat == "mkfs.fat -F32 {efi_part}"

MkfsExt4 == "mkfs.ext4 -F {root_part}"

\* the commands of _prepare_disk in the order of its statements
DiskPrepCommands == <<UmountTarget, Mklabel, MkpartEfi, SetEsp, MkpartRoot, Partprobe>>

\* the strict commands of _prepare_disk
DiskPrepStrict == {Mklabel, MkpartEfi, SetEsp, MkpartRoot}

\* C26: with the disk present the first commands of a run are, in order, the
\* unmount, mklabel gpt, the EFI mkpart, set esp, the root mkpart and
\* partprobe; a strict one of them that fails is the last command of the run
\* and _prepare_disk returns False; partprobe is invoked after both mkpart
\* commands succeeded and before every mkfs command
C26_DiskPrepOrder ==
    /\ \A i \in 1..Len(CommandTexts) :
           i <= Len(DiskPrepCommands) => CommandTexts[i] = DiskPrepCommands[i]
    /\ \A s \in DiskPrepStrict : \A i \in Invocations(s) :
           ReportedFailed(i) =>
               /\ \A j \in (i + 1)..Len(events) : events[j].k # "cmd"
               /\ Len(stageResults) = 1
               /\ stageResults[1] = [stage |-> 1, result |-> "False"]
    /\ \A p \in Invocations(Partprobe) :
           /\ \E e \in Invocations(MkpartEfi), r \in Invocations(MkpartRoot) :
                  e < r /\ r < p /\ ~ReportedFailed(e) /\ ~ReportedFailed(r)
    /\ \A f \in Invocations(MkfsFat) \cup Invocations(MkfsExt4) :
           \E p \in Invocations(Partprobe) : p < f

\* the partition table was read again, partprobe having failed, and the EFI
\* partition is being formatted
C26_Witness ==
    /\ \E p \in Invocations(Partprobe) : ReportedFailed(p)
    /\ Last(events).s = MkfsFat

\* the EFI mkpart command failed and the stage function returned False
C26_WitnessFailed ==
    /\ \E i \in Invocations(MkpartEfi) : ReportedFailed(i)
    /\ pc = "ret"

-----------------------------------------------------------------------------
(* Properties of the configuration stage: the first failure *)

LinkTimezone ==
    "arch-chroot {self.mount_point} ln -sf /usr/share/zoneinfo/{timezone} /etc/localtime"

Hwclock == "arch-chroot {self.mount_point} hwclock --systohc"

EnableLocale == "arch-chroot {self.mount_point} sed -i 's/^#{locale}/{locale}/' /etc/locale.gen"

EnableEnUs ==
    "arch-chroot {self.mount_point} sed -i 's/^#en_US.UTF-8/en_US.UTF-8/' /etc/locale.gen"

LocaleGen == "arch-chroot {self.mount_point} locale-gen"

\* the commands of _configure_system up to locale-gen
BeforeFiles == {LinkTimezone, Hwclock, EnableLocale, EnableEnUs, LocaleGen}

\* the commands of _configure_system
ConfigureCommands ==
    BeforeFiles \cup {RootChpasswd, Useradd, UserChpasswd, SudoersSed,
                      EnableNetworkManager, EnableLightdm}

\* the files _configure_system writes
ConfigFiles ==
    { "{self.mount_point}/etc/locale.conf", "{self.mount_point}/etc/vconsole.conf",
      "{self.mount_point}/etc/hostname", "{self.mount_point}/etc/hosts" }

\* the positions in events where one of these files was written
Writes == {i \in 1..Len(events) : events[i].k = "write" /\ events[i].s \in ConfigFiles}

\* C27: the commands of _configure_system are the eleven listed; when one of
\* them fails, the stage function returns False and the trace holds nothing
\* after the failure line but the finished(False, ...) event of run; when the
\* one that failed is locale-gen or a command before it, no file has been
\* written; a file is written only after locale-gen succeeded
C27_ConfigureAbortsOnFirstFailure ==
    /\ CommandsOf(6) \subseteq ConfigureCommands
    /\ \A i \in Writes :
           \E g \in Invocations(LocaleGen) : g < i /\ ~ReportedFailed(g)
    /\ \A s \in ConfigureCommands : \A i \in Invocations(s) :
           ReportedFailed(i) =>
               /\ Len(stageResults) = 6
               /\ stageResults[6] = [stage |-> 6, result |-> "False"]
               /\ \A j \in (i + 2)..Len(events) :
                      events[j].k = "finished" /\ events[j].n = 0
               /\ s \in BeforeFiles => Writes = {}

\* locale-gen failed and the run has ended
C27_Witness ==
    /\ pc = "done"
    /\ \E i \in Invocations(LocaleGen) : ReportedFailed(i)

\* the last command failed after the four files were written
C27_WitnessLate ==
    /\ pc = "done"
    /\ Cardinality(Writes) = 4
    /\ \E i \in Invocations(EnableLightdm) : ReportedFailed(i)

-----------------------------------------------------------------------------
(* Properties of the bootloader stage: the two install paths *)

\* _install_bootloader has gone past the two grub-install calls
PastInstalls == Logged("Generating GRUB configuration...")

\* C28: each grub-install command is invoked at most once in a run; the BIOS
\* one is invoked only right after the EFI one, and the EFI one only after
\* mkdir -p /boot/EFI succeeded; however the EFI process ends (status 0,
\* another status, no spawn) the next statement is the BIOS install; a stage
\* that returned after a successful mkdir -p /boot/EFI invoked both
C28_BothInstallPathsTried ==
    /\ [](/\ Cardinality(Invocations(GrubInstallEfi)) <= 1
          /\ Cardinality(Invocations(GrubInstallBios)) <= 1)
    /\ [](\A e \in Invocations(GrubInstallEfi) :
              \E m \in Invocations(MkdirBootEfi) : m < e /\ ~ReportedFailed(m))
    /\ [](\A b \in Invocations(GrubInstallBios) :
              \E e \in Invocations(GrubInstallEfi) :
                  /\ e < b
                  /\ \A j \in (e + 1)..(b - 1) : events[j].k = "log")
    /\ []((PastInstalls \/ (BootloaderEnded /\ Last(CommandTexts) # MkdirBootEfi)) =>
              /\ Invocations(GrubInstallEfi) # {}
              /\ Invocations(GrubInstallBios) # {})
    /\ [][(efi_outcome = "none" /\ efi_outcome' # "none") =>
              /\ pc' = "stage"
              /\ stage' = 7
              /\ Statements[config][7][ip'].s = GrubInstallBios]_vars

\* the EFI install could not be spawned and the BIOS install exited with 0
C28_Witness ==
    /\ efi_outcome = "exception"
    /\ bios_outcome = "exit0"
    /\ Invocations(GrubInstallBios) # {}
    /\ PastInstalls

-----------------------------------------------------------------------------
(* Properties of the cleanup stage: a successful run *)

\* the seven fallible stage functions have returned True
SevenPassed == Len(stageResults) >= 7 /\ SubSeq(stageResults, 1, 7) = SubSeq(AllPassed, 1, 7)

\* the positions in events of the unmount commands of _cleanup_installation
CleanupUnmounts ==
    {u \in Invocations(UmountTarget) :
        \E c \in 1..(u - 1) : events[c].k = "status" /\ events[c].s = "Cleaning up..."}

\* the worker is at the unmount command of _cleanup_installation
AtCleanupUnmount == InStage /\ stage = 8 /\ Cur.op = "cmd"

\* C29: however the unmount command of _cleanup_installation goes (status 0,
\* another status, no spawn), the stage function goes on to its last log line
\* and returns nothing; a run in which the seven fallible stages returned
\* True and that has returned issued that unmount exactly once and ended with
\* progress 100, the completion status and finished(True, ...)
C29_CleanupNeverFails ==
    /\ [][(AtCleanupUnmount /\ pc' # "terminated") =>
              /\ pc' = "stage"
              /\ stage' = 8
              /\ ip' = IF child' = 1 THEN ip ELSE ip + 1
              /\ stageResults' = stageResults]_vars
    /\ [](Cardinality(CleanupUnmounts) <= 1)
    /\ [](Len(stageResults) = 8 =>
              /\ stageResults[8] = [stage |-> 8, result |-> "None"]
              /\ Cardinality(CleanupUnmounts) = 1)
    /\ []((pc = "done" /\ SevenPassed) =>
              /\ Len(stageResults) = 8
              /\ Last(ProgressValues) = 100
              /\ Last(events) = Finished(TRUE, SuccessMessage)
              /\ events[Len(events) - 2] = Progress(100))

\* a run that ended with finished(True, ...) although the unmount of the
\* cleanup could not be spawned
C29_Witness ==
    /\ pc = "done"
    /\ HasSuccess
    /\ \E u \in CleanupUnmounts : ReportedFailed(u)

-----------------------------------------------------------------------------
(* Properties of the cancellation *)

\* the step terminates the thread
Terminates == pc # "terminated" /\ pc' = "terminated"

-----------------------------------------------------------------------------
(* Properties of the partition table *)

\* C31: whatever the disk carries when a run starts (no partition table, or
\* the table of an earlier run or of anything else), a run whose disk exists
\* and that has returned has invoked parted mklabel gpt on the disk of its
\* configuration, once, as its second command; and a run that goes past the
\* disk test goes on to the unmount and mklabel statements
C31_RunRewritesTable ==
    /\ []((pc = "done" /\ diskExists) =>
              /\ Cardinality(Invocations(Mklabel)) = 1
              /\ \A i \in Invocations(Mklabel) : events[i].a = <<config.disk>>
              /\ CommandTexts[2] = Mklabel)
    /\ [][(InStage /\ Cur.op = "check_disk" /\ diskExists /\ pc' # "terminated") =>
              /\ pc' = "stage"
              /\ stage' = 1
              /\ ip' = ip + 1
              /\ events' = events]_vars

\* mklabel gpt is executing on a disk that carries a partition table
C31_Witness ==
    /\ table = "gpt"
    /\ child = 1
    /\ Last(events).s = Mklabel
    /\ Last(events).a = <<DevNvme>>

-----------------------------------------------------------------------------
(* Properties of the partition attributes *)

\* the worker is at a statement that reads self.efi_partition or
\* self.root_partition
AtRead == InStage /\ Cur.ref # ""

\* the positions in events of the mkfs commands that have exited and were
\* not reported failed
Formatted ==
    {i \in Invocations(MkfsFat) \cup Invocations(MkfsExt4) :
        ~ReportedFailed(i) /\ ~(child = 1 /\ i = Len(events))}

\* C32: efi_partition and root_partition are set together, to the paths the
\* naming rule gives for the disk, and only when both mkfs commands have
\* succeeded; whenever the worker is at a statement that reads one of them
\* (the two mount commands, the write of grub-standalone.cfg), the attribute
\* is set and _create_filesystems returned True; no AttributeError leaves a
\* stage function
C32_PartitionsSetBeforeRead ==
    /\ [](efi_partition = Unset <=> root_partition = Unset)
    /\ [](efi_partition # Unset =>
              /\ efi_partition = PartitionNames(config.disk).efi
              /\ root_partition = PartitionNames(config.disk).root
              /\ Cardinality(Formatted) = 2)
    /\ [](AtRead =>
              /\ Attribute(Cur.ref) # Unset
              /\ Len(stageResults) >= 2
              /\ stageResults[2] = [stage |-> 2, result |-> "True"])
    /\ [][(AtRead /\ pc' = "except") => Cur.op \in {"makedirs", "write"}]_vars

\* the worker is about to write grub-standalone.cfg with the root partition
\* of an NVMe disk
C32_Witness ==
    /\ AtRead
    /\ Cur.op = "write"
    /\ root_partition = PartitionNames(DevNvme).root

-----------------------------------------------------------------------------
(* Properties of the work on the target *)

Pacstrap == "pacstrap {self.mount_point} {packages_str}"

Genfstab == "genfstab -U {self.mount_point} >> {self.mount_point}/etc/fstab"

MkdirFallback == "arch-chroot {self.mount_point} mkdir -p /boot/EFI/BOOT"

CopyFallback ==
    "arch-chroot {self.mount_point} cp /boot/EFI/KunsOS/grubx64.efi /boot/EFI/BOOT/BOOTX64.EFI"

\* the commands that change the target: pacstrap, genfstab and the commands
\* run with arch-chroot
TargetCommands ==
    {Pacstrap, Genfstab} \cup ConfigureCommands
        \cup {MkdirBootEfi, GrubInstallEfi, GrubInstallBios, GrubMkconfig,
              MkdirFallback, CopyFallback}

\* the event at position i is work on the target: one of these commands or a
\* file written under the mount point
IsTargetWork(i) ==
    \/ events[i].k = "cmd" /\ events[i].s \in TargetCommands
    \/ events[i].k = "write"

\* the positions in events of the work on the target
TargetWork == {i \in 1..Len(events) : IsTargetWork(i)}

\* before position i a root mount and then an EFI mount command succeeded,
\* and no unmount command was invoked between the root mount and i
OnMountedTarget(i) ==
    \E r \in Invocations(MountRoot), e \in Invocations(MountEfi) :
        /\ r < e /\ e < i
        /\ ~ReportedFailed(r) /\ ~ReportedFailed(e)
        /\ \A u \in Invocations(UmountTarget) : u < r \/ i < u

\* the commands of a run that do not change the target
OtherCommands ==
    {UmountTarget, Mklabel, MkpartEfi, SetEsp, MkpartRoot, Partprobe, MkfsFat, MkfsExt4,
     MountRoot, MountEfi, "parted {disk} set 1 boot on", "parted {disk} set 1 legacy_boot on"}

\* C33: every command that changes the target (pacstrap, genfstab, the
\* arch-chroot commands) and every file written is added to the trace only
\* after a root mount and then an EFI mount command that succeeded, with no
\* unmount command between the root mount and it; every other command is one
\* of the disk, mount and unmount commands; pacstrap is invoked at most once
\* in a run
C33_TargetWorkOnlyWhenMounted ==
    /\ [][\A i \in (Len(events) + 1)..Len(events') :
              /\ (IsTargetWork(i) => OnMountedTarget(i))'
              /\ (events[i].k = "cmd" /\ ~IsTargetWork(i) => events[i].s \in OtherCommands)']_vars
    /\ [](Cardinality(Invocations(Pacstrap)) <= 1)

\* pacstrap and genfstab were invoked and grub-standalone.cfg was written
C33_Witness ==
    /\ Invocations(Pacstrap) # {}
    /\ Invocations(Genfstab) # {}
    /\ \E i \in TargetWork :
           events[i].k = "write" /\ events[i].s = "{self.mount_point}/boot/grub/grub-standalone.cfg"

-----------------------------------------------------------------------------
(* Properties of the wizard after a run *)

\* the step in which install_finished handles the finished signal
Delivers == pc = "done" /\ pc' = "delivered"

\* mklabel gpt has just been invoked
RewritingTable ==
    /\ events # <<>>
    /\ Last(events).k = "cmd"
    /\ Last(events).s = Mklabel

\* C34 as stated, its last part: when the partition table is rewritten,
\* nothing is mounted under the mount point any more
C34_UnmountedBeforeRewrite == RewritingTable => mounts = {}

\* C34, amended: install_finished shows the completion page, with no button
\* to navigate or install, after finished(True), and the package page with
\* the install button after finished(False); from the completion page no
\* page is left and no thread is started; every run starts with an empty
\* trace, its first progress is 0, its first stage is DiskPrep and its first
\* command the unmount with check=False, which has exited before mklabel is
\* invoked, whether it unmounted anything or not
C34_WizardAfterRun ==
    /\ [][Delivers =>
              IF Last(events).n = 1
              THEN /\ current_page' = 5
                   /\ ~install_visible' /\ ~next_visible' /\ ~prev_visible'
              ELSE /\ current_page' = 3
                   /\ install_visible' /\ prev_enabled']_vars
    /\ [][current_page = 5 => current_page' = 5 /\ ~ThreadStarts]_vars
    /\ [][ThreadStarts => current_page = 3 /\ events' = <<>> /\ stage' = 0]_vars
    /\ [](ProgressValues # <<>> => ProgressValues[1] = 0)
    /\ [](StagesEntered # <<>> => StagesEntered[1] = "Preparing disk...")
    /\ [](CommandTexts # <<>> =>
              /\ CommandTexts[1] = UmountTarget
              /\ \A u \in Invocations(UmountTarget) : events[u].n = 0)
    /\ [](RewritingTable =>
              \E u \in Invocations(UmountTarget) :
                  /\ u < Len(events)
                  /\ \A j \in 1..(u - 1) : events[j].k # "cmd")

\* a run started again after a failed one has invoked the unmount while the
\* partitions of the failed run are mounted
C34_Witness ==
    /\ child = 1
    /\ Last(events).s = UmountTarget
    /\ stage = 1
    /\ mounts = {"root", "efi"}

\* the run started again rewrites the partition table with the partitions of
\* the failed run still mounted
C34_WitnessStillMounted ==
    /\ RewritingTable
    /\ mounts = {"root", "efi"}

-----------------------------------------------------------------------------
(* Properties of the status events *)

StartingStatus == "Starting installation..."

CompletedStatus == "Installation completed successfully!"

\* every status text of a successful run, in order
AllStatus == <<StartingStatus>> \o StageStatus \o <<CompletedStatus>>

\* the positions in events of the status events with text s
StatusAt(s) == {i \in 1..Len(events) : events[i].k = "status" /\ events[i].s = s}

\* C35: the first event of a run is the status "Starting installation...",
\* followed by progress 0; the status texts emitted are a prefix of the
\* starting text, the eight stage texts in stage order and the completion
\* text; a stage function is entered right after a progress value and its
\* first step emits its own status, so a stage emits its status before any
\* command of its own; the completion text comes right after progress 100 and right
\* before finished(True, ...), in every run that ends with success and in no
\* other
C35_StatusFollowsStages ==
    /\ [](events # <<>> => events[1] = Ev("status", StartingStatus, <<>>, 0))
    /\ [](Len(events) >= 2 => events[2] = Progress(0))
    /\ [](IsPrefix(StatusTexts, AllStatus))
    /\ []((pc = "stage" /\ ip = 1) =>
              /\ Last(events).k = "progress"
              /\ Len(StagesEntered) = stage - 1)
    /\ [][(pc = "stage" /\ ip = 1 /\ pc' # "terminated") =>
              events' = Append(events, Ev("status", StageStatus[stage], <<>>, 0))]_vars
    /\ [](\A i \in StatusAt(CompletedStatus) :
              /\ events[i - 1] = Progress(100)
              /\ i < Len(events) => events[i + 1] = Finished(TRUE, SuccessMessage)
              /\ ~HasFailure)
    /\ [](HasSuccess => Cardinality(StatusAt(CompletedStatus)) = 1)

\* a successful run has emitted its ten status texts
C35_Witness ==
    /\ HasSuccess
    /\ StatusTexts = AllStatus

-----------------------------------------------------------------------------
(* Properties of the log of the commands *)

\* the Executing line _run_command emits for the command s with the values a
Announcement(s, a) == Ev("log", "Executing: {cmd}", <<s, a>>, 0)

\* the log events emitted so far, in order
LogStream == OfKind(events, "log")

\* C36: every command invoked is preceded, as the event right before it, by
\* the Executing line with its text and every value formatted into it; so
\* when the root chpasswd command is invoked the log holds the root password
\* of the configuration, and when the user chpasswd command is invoked it
\* holds the user password: the log of a run determines the passwords it set
C36_CommandsAnnouncedWithSecrets ==
    /\ \A i \in 1..Len(events) :
           events[i].k = "cmd" =>
               /\ i > 1
               /\ events[i - 1] = Announcement(events[i].s, events[i].a)
    /\ \A i \in Invocations(RootChpasswd) :
           /\ config.root_password # ""
           /\ events[i - 1] = Announcement(RootChpasswd, <<config.root_password>>)
    /\ \A i \in Invocations(UserChpasswd) :
           /\ config.password # ""
           /\ events[i - 1] = Announcement(UserChpasswd, <<config.username, config.password>>)
    /\ (ConfiguredOk /\ config.root_password # "") => Invocations(RootChpasswd) # {}
    /\ (ConfiguredOk /\ config.password # "" /\ config.username # "") =>
           Invocations(UserChpasswd) # {}

\* both passwords have been logged
C36_Witness ==
    /\ config.root_password # ""
    /\ config.password # ""
    /\ Announcement(RootChpasswd, <<config.root_password>>) \in SeqToSet(LogStream)
    /\ Announcement(UserChpasswd, <<config.username, config.password>>) \in SeqToSet(LogStream)

====
